---- MODULE Spec2Model ----
(***************************************************************************)
(* kuberbac: the policy-rule compiler of DynamicClusterRole and the        *)
(* reconcilers of DynamicClusterRole and DynamicRoleBinding.               *)
(*                                                                         *)
(* Strings are TLA+ strings; map keys are built by concatenation and       *)
(* matched by prefix exactly as the Go code does.  A Go slice of verbs is  *)
(* a view [arr, len] on a backing array of a heap, so that append within   *)
(* capacity and the in-place sort are visible through every alias.         *)
(***************************************************************************)
EXTENDS Integers, Sequences, FiniteSets, TLC

VARIABLES
    \* ---- the compiler run on its own (SpecCompile)
    stage,          \* "input" | "mapped" | "done"
    allow,          \* spec.allow : sequence of PolicyRule
    deny,           \* spec.deny  : sequence of PolicyRule
    lister,         \* what Client.List answers: [err, items : Kind -> names]
    allowMap,       \* GetMapFromStretchedPolicyRules(allow side)
    denyMap,        \* GetMapFromStretchedPolicyRules(deny side)
    result,         \* [err, rules] : EvaluatePolicyRules' map, or the error
    rangeStart,     \* where this run's ranges over a Go map start
    discovery,      \* what ServerGroupsAndResources answers: [err, lists]
    inventory,      \* the processor's [err, ResourcesByGroup, ResourceList]
    \* ---- the cluster and the two reconcilers (Spec)
    dynamicClusterRole,   \* the DynamicClusterRole CR, or Absent
    dynamicRoleBinding,   \* the DynamicRoleBinding CR, or Absent
    clusterRoles,         \* name -> ClusterRole
    clusterRoleBindings,  \* name -> ClusterRoleBinding
    roleBindings,         \* <<namespace, name>> -> RoleBinding
    calls,                \* the writes of the last reconcile, in order
    returned              \* what the last reconcile did and returned

compileVars == <<stage, allow, deny, lister, allowMap, denyMap, result, rangeStart,
                 discovery, inventory>>

worldVars == <<dynamicClusterRole, dynamicRoleBinding, clusterRoles,
               clusterRoleBindings, roleBindings, calls, returned>>

vars == <<compileVars, worldVars>>

\* no such object in the cluster
Absent == [Kind |-> "", Finalizers |-> {}, DeletionTimestamp |-> FALSE]

\* no reconcile has run; faults are the API calls that failed in the last
\* one, and a reconcile that called SyncTarget adds spec, the spec of the CR
\* object in memory when SyncTarget returned
NoReturn ==
    [reconciler |-> "", path |-> "", err |-> FALSE, syncErr |-> FALSE,
     teardown |-> "none", faults |-> {}]

\* the cluster while the compiler runs on its own
NoWorld ==
    /\ dynamicClusterRole = Absent
    /\ dynamicRoleBinding = Absent
    /\ clusterRoles = <<>>
    /\ clusterRoleBindings = <<>>
    /\ roleBindings = <<>>
    /\ calls = <<>>
    /\ returned = NoReturn

(***************************************************************************)
(* Bounds of the model.                                                    *)
(***************************************************************************)
MaxAllow == 2       \* rules in spec.allow
MaxDeny == 1        \* rules in spec.deny
MaxSpare == 1       \* spare capacity (cap - len) of a decoded verbs slice

(***************************************************************************)
(* strings, slices                                                         *)
(***************************************************************************)
HasPrefix(s, prefix) ==
    Len(prefix) <= Len(s) /\ SubSeq(s, 1, Len(prefix)) = prefix

HasSuffix(s, suffix) ==
    Len(suffix) <= Len(s) /\ SubSeq(s, Len(s) - Len(suffix) + 1, Len(s)) = suffix

TrimSuffix(s, suffix) ==
    IF HasSuffix(s, suffix) THEN SubSeq(s, 1, Len(s) - Len(suffix)) ELSE s

RECURSIVE SplitFrom(_, _, _, _)
SplitFrom(s, sep, start, i) ==
    IF i > Len(s) THEN <<SubSeq(s, start, Len(s))>>
    ELSE IF SubSeq(s, i, i) = sep
         THEN <<SubSeq(s, start, i - 1)>> \o SplitFrom(s, sep, i + 1, i + 1)
         ELSE SplitFrom(s, sep, start, i + 1)

Split(s, sep) == SplitFrom(s, sep, 1, 1)

RECURSIVE Join(_, _)
Join(parts, sep) ==
    IF Len(parts) = 0 THEN ""
    ELSE IF Len(parts) = 1 THEN parts[1]
    ELSE parts[1] \o sep \o Join(Tail(parts), sep)

Contains(list, x) == \E i \in DOMAIN list : list[i] = x

Range(list) == {list[i] : i \in DOMAIN list}

(***************************************************************************)
(* Byte order of the verb strings that occur, as slices.Sort sees them.    *)
(***************************************************************************)
SortedVerbs ==
    <<"", "create", "delete", "deletecollection", "escalate", "get", "list",
      "patch", "update", "watch">>

VerbRank(v) == CHOOSE i \in DOMAIN SortedVerbs : SortedVerbs[i] = v

RECURSIVE InsertSorted(_, _)
InsertSorted(sorted, v) ==
    IF Len(sorted) = 0 THEN <<v>>
    ELSE IF VerbRank(v) < VerbRank(sorted[1]) THEN <<v>> \o sorted
    ELSE <<sorted[1]>> \o InsertSorted(Tail(sorted), v)

RECURSIVE SlicesSort(_)
SlicesSort(list) ==
    IF Len(list) = 0 THEN <<>>
    ELSE InsertSorted(SlicesSort(SubSeq(list, 1, Len(list) - 1)), list[Len(list)])

\* slices.Compact: consecutive duplicates removed (the kept prefix)
RECURSIVE SlicesCompact(_)
SlicesCompact(list) ==
    IF Len(list) <= 1 THEN list
    ELSE LET rest == SlicesCompact(Tail(list))
         IN IF list[1] = rest[1] THEN rest ELSE <<list[1]>> \o rest

Zeroes(n) == [i \in 1..n |-> ""]

\* the elements a slice [arr, len] shows
View(heap, slice) == SubSeq(heap[slice.arr], 1, slice.len)

(***************************************************************************)
(* Resource inventory (PolicyRulesProcessorT)                              *)
(***************************************************************************)
\* What DiscoveryClient.ServerGroupsAndResources answers: one list per
\* group/version.  The core group serves pods (with the log subresource)
\* and nodes; metrics.k8s.io serves pods too, without subresources.
ServerGroupsAndResources ==
    << [GroupVersion |-> "v1",
        APIResources |->
            << [Name |-> "pods", Kind |-> "Pod", Namespaced |-> TRUE,
                Verbs |-> <<"get", "list", "watch", "delete">>],
               [Name |-> "pods/log", Kind |-> "Pod", Namespaced |-> TRUE,
                Verbs |-> <<"get">>],
               [Name |-> "nodes", Kind |-> "Node", Namespaced |-> FALSE,
                Verbs |-> <<"get", "list", "watch">>] >>],
       [GroupVersion |-> "metrics.k8s.io/v1beta1",
        APIResources |->
            << [Name |-> "pods", Kind |-> "PodMetrics", Namespaced |-> TRUE,
                Verbs |-> <<"get", "list">>] >>] >>

\* one apiResource of a list, as the GVKR the processor stores
GVKR(group, version, apiResource) ==
    LET resourceSubResource == Split(apiResource.Name, "/")
    IN [Resource    |-> resourceSubResource[1],
        Subresource |-> IF Len(resourceSubResource) > 1
                        THEN Join(Tail(resourceSubResource), "/") ELSE "",
        Group       |-> group,
        Version     |-> version,
        Kind        |-> apiResource.Kind,
        Namespaced  |-> apiResource.Namespaced,
        UsableVerbs |-> apiResource.Verbs]

RECURSIVE SetResourcesByGroupFrom(_, _, _)
SetResourcesByGroupFrom(lists, i, byGroup) ==
    IF i > Len(lists) THEN byGroup
    ELSE LET groupVersion == Split(lists[i].GroupVersion, "/")
             group   == IF Len(groupVersion) = 2 THEN groupVersion[1] ELSE ""
             version == IF Len(groupVersion) = 2 THEN groupVersion[2] ELSE groupVersion[1]
             gvkrs   == [j \in DOMAIN lists[i].APIResources |->
                            GVKR(group, version, lists[i].APIResources[j])]
             \* p.ResourcesByGroup[group] = []GVKR{} and then the appends
             others  == [g \in DOMAIN byGroup \ {group} |-> byGroup[g]]
         IN SetResourcesByGroupFrom(lists, i + 1, (group :> gvkrs) @@ others)

\* map[string][]GVKR : group -> its resources
ResourcesByGroup == SetResourcesByGroupFrom(ServerGroupsAndResources, 1, <<>>)

\* resource or resource/subresource, as rules name it
ResourceName(gvkr) ==
    IF gvkr.Subresource # "" THEN gvkr.Resource \o "/" \o gvkr.Subresource
    ELSE gvkr.Resource

\* The order in which Go ranges over the keys of ResourcesByGroup is not
\* fixed; the compiler's maps do not depend on it, and one order stands
\* for all.
RECURSIVE KeysInOrder(_)
KeysInOrder(keys) ==
    IF keys = {} THEN <<>>
    ELSE LET k == CHOOSE x \in keys : TRUE IN <<k>> \o KeysInOrder(keys \ {k})

GroupList == KeysInOrder(DOMAIN ResourcesByGroup)

\* The order of a range over a Go map differs from one range to the next:
\* the runtime starts each at a place of its own choosing. The runs the model
\* follows differ in that place.
MaxStart == 1

RangeStarts == 0..MaxStart

Rotate(seq, start) ==
    IF seq = <<>> THEN seq
    ELSE [i \in DOMAIN seq |-> seq[((i - 1 + start) % Len(seq)) + 1]]

MapRange(keys) == Rotate(KeysInOrder(keys), rangeStart)

RECURSIVE FlattenResources(_, _)
FlattenResources(groups, i) ==
    IF i > Len(groups) THEN <<>>
    ELSE [j \in DOMAIN ResourcesByGroup[groups[i]] |->
              ResourceName(ResourcesByGroup[groups[i]][j])]
         \o FlattenResources(groups, i + 1)

\* []string of every resource[/subresource] of the cluster
ResourceList == FlattenResources(GroupList, 1)

\* SetResourceList on the map SetResourcesByGroup built
RECURSIVE SetResourceList(_, _, _)
SetResourceList(byGroup, groups, i) ==
    IF i > Len(groups) THEN <<>>
    ELSE [j \in DOMAIN byGroup[groups[i]] |-> ResourceName(byGroup[groups[i]][j])]
         \o SetResourceList(byGroup, groups, i + 1)

\* NewPolicyRuleProcessor: the inventory of one discovery answer
NewPolicyRuleProcessor(answer) ==
    IF answer.err THEN [err |-> TRUE, ResourcesByGroup |-> <<>>, ResourceList |-> <<>>]
    ELSE LET Built(byGroup) ==
                 [err |-> FALSE, ResourcesByGroup |-> byGroup,
                  ResourceList |-> SetResourceList(byGroup,
                                                   KeysInOrder(DOMAIN byGroup), 1)]
         IN Built(SetResourcesByGroupFrom(answer.lists, 1, <<>>))

\* the discovery answer and the inventory of the cluster the compiler and
\* the reconcilers run against
ClusterDiscovery == [err |-> FALSE, lists |-> ServerGroupsAndResources]

ClusterInventory ==
    [err |-> FALSE, ResourcesByGroup |-> ResourcesByGroup, ResourceList |-> ResourceList]

(***************************************************************************)
(* Stage A: ExpandPolicyRules                                              *)
(*                                                                         *)
(* An input rule is [APIGroups, Resources, ResourceNames, NonResourceURLs, *)
(* Verbs, VerbsCap]: VerbsCap is the capacity of the Verbs slice as the    *)
(* caller built it.  The verbs of rule i live in backing array i.          *)
(***************************************************************************)
CanonicalVerbs ==
    <<"create", "delete", "deletecollection", "get", "list", "patch", "update", "watch">>

\* the four validity checks: TRUE when the rule is skipped
RuleIgnored(policyRule) ==
    \/ Len(policyRule.Verbs) = 0
    \/ /\ Len(policyRule.NonResourceURLs) # 0
       /\ \/ Len(policyRule.APIGroups) # 0
          \/ Len(policyRule.Resources) # 0
          \/ Len(policyRule.ResourceNames) # 0
    \/ /\ Len(policyRule.NonResourceURLs) = 0
       /\ (Len(policyRule.APIGroups) = 0 \/ Len(policyRule.Resources) = 0)
    \/ /\ Len(policyRule.ResourceNames) # 0
       /\ (Len(policyRule.APIGroups) = 0 \/ Len(policyRule.Resources) = 0)

\* 1. groups: all of the inventory, or the named ones the inventory has
ExpandGroups(policyRule) ==
    IF Contains(policyRule.APIGroups, "*") THEN GroupList
    ELSE SelectSeq(policyRule.APIGroups, LAMBDA group : group \in DOMAIN ResourcesByGroup)

\* 2. resources: all of the retained groups, or the named ones that exist
ExpandResources(policyRule, newGroups) ==
    IF Contains(policyRule.Resources, "*") THEN FlattenResources(newGroups, 1)
    ELSE SelectSeq(policyRule.Resources, LAMBDA resource : Contains(ResourceList, resource))

\* 2.1 keep the groups that hold the resource type of a retained resource
RECURSIVE TightenGroups(_, _, _, _)
TightenGroups(resources, groups, i, newGroupList) ==
    IF i >= Len(resources) * Len(groups) THEN newGroupList
    ELSE LET resource     == resources[(i \div Len(groups)) + 1]
             group        == groups[(i % Len(groups)) + 1]
             resourceType == Split(resource, "/")[1]
             found        == \E j \in DOMAIN ResourcesByGroup[group] :
                                 ResourcesByGroup[group][j].Resource = resourceType
         IN TightenGroups(resources, groups, i + 1,
                IF found /\ ~Contains(newGroupList, group)
                THEN Append(newGroupList, group) ELSE newGroupList)

\* ExpandVerbs that passes '*' through
ExpandVerbs_KeepStar(policyRule) == policyRule.Verbs

\* 4. verbs: the canonical eight (a fresh literal) or the input slice itself
ExpandVerbs(policyRule) ==
    IF Contains(policyRule.Verbs, "*") THEN CanonicalVerbs ELSE policyRule.Verbs

ExpandRule(policyRule, i) ==
    LET newGroups    == ExpandGroups(policyRule)
        newResources == ExpandResources(policyRule, newGroups)
    IN [APIGroups       |-> TightenGroups(newResources, newGroups, 0, <<>>),
        Resources       |-> newResources,
        ResourceNames   |-> policyRule.ResourceNames,
        NonResourceURLs |-> policyRule.NonResourceURLs,
        Verbs           |-> [arr |-> i, len |-> Len(ExpandVerbs(policyRule))]]

RECURSIVE ExpandFrom(_, _)
ExpandFrom(policyRules, i) ==
    IF i > Len(policyRules) THEN <<>>
    ELSE (IF RuleIgnored(policyRules[i]) THEN <<>> ELSE <<ExpandRule(policyRules[i], i)>>)
         \o ExpandFrom(policyRules, i + 1)

ExpandPolicyRules(policyRules) == ExpandFrom(policyRules, 1)

\* the backing arrays the expanded rules' verbs point to: the literal of
\* eight has no spare room, an input slice keeps the caller's capacity
VerbArrays(policyRules) ==
    [i \in DOMAIN policyRules |->
        IF Contains(policyRules[i].Verbs, "*") THEN CanonicalVerbs
        ELSE policyRules[i].Verbs
             \o Zeroes(policyRules[i].VerbsCap - Len(policyRules[i].Verbs))]

(***************************************************************************)
(* Stage B: StretchPolicyRules                                             *)
(***************************************************************************)
ResourceFound(group, resource) ==
    \E j \in DOMAIN ResourcesByGroup[group] :
        ResourceName(ResourcesByGroup[group][j]) = resource

\* StretchPair without the check that the group serves the resource
StretchPair_Unchecked(policyRule, group, resource) ==
    IF Len(policyRule.ResourceNames) # 0
    THEN [n \in DOMAIN policyRule.ResourceNames |->
             [APIGroups       |-> <<group>>,
              Resources       |-> <<resource>>,
              ResourceNames   |-> <<policyRule.ResourceNames[n]>>,
              NonResourceURLs |-> <<>>,
              Verbs           |-> policyRule.Verbs]]
    ELSE << [APIGroups       |-> <<group>>,
             Resources       |-> <<resource>>,
             ResourceNames   |-> <<>>,
             NonResourceURLs |-> <<>>,
             Verbs           |-> policyRule.Verbs] >>

\* the atomic rules of one (resource, group) pair
StretchPair(policyRule, group, resource) ==
    IF ~ResourceFound(group, resource) THEN <<>>
    ELSE IF Len(policyRule.ResourceNames) # 0
    THEN [n \in DOMAIN policyRule.ResourceNames |->
             [APIGroups       |-> <<group>>,
              Resources       |-> <<resource>>,
              ResourceNames   |-> <<policyRule.ResourceNames[n]>>,
              NonResourceURLs |-> <<>>,
              Verbs           |-> policyRule.Verbs]]
    ELSE << [APIGroups       |-> <<group>>,
             Resources       |-> <<resource>>,
             ResourceNames   |-> <<>>,
             NonResourceURLs |-> <<>>,
             Verbs           |-> policyRule.Verbs] >>

RECURSIVE StretchPairs(_, _)
StretchPairs(policyRule, i) ==
    IF i >= Len(policyRule.Resources) * Len(policyRule.APIGroups) THEN <<>>
    ELSE StretchPair(policyRule,
                     policyRule.APIGroups[(i % Len(policyRule.APIGroups)) + 1],
                     policyRule.Resources[(i \div Len(policyRule.APIGroups)) + 1])
         \o StretchPairs(policyRule, i + 1)

StretchRule(policyRule) ==
    IF Len(policyRule.NonResourceURLs) > 0
    THEN [u \in DOMAIN policyRule.NonResourceURLs |->
             [APIGroups       |-> <<>>,
              Resources       |-> <<>>,
              ResourceNames   |-> <<>>,
              NonResourceURLs |-> <<policyRule.NonResourceURLs[u]>>,
              Verbs           |-> policyRule.Verbs]]
    ELSE StretchPairs(policyRule, 0)

RECURSIVE StretchPolicyRules(_)
StretchPolicyRules(policyRules) ==
    IF Len(policyRules) = 0 THEN <<>>
    ELSE StretchRule(policyRules[1]) \o StretchPolicyRules(Tail(policyRules))

(***************************************************************************)
(* Stage C: GetMapFromStretchedPolicyRules                                 *)
(***************************************************************************)
MapKey(policyRule) ==
    IF Len(policyRule.NonResourceURLs) # 0
    THEN "nonresourceurl#" \o policyRule.NonResourceURLs[1]
    ELSE policyRule.APIGroups[1] \o "#" \o policyRule.Resources[1] \o "#"
         \o (IF Len(policyRule.ResourceNames) # 0 THEN policyRule.ResourceNames[1] ELSE "")

\* tmp := append(stored, verbs...); slices.Sort(tmp); tmp = slices.Compact(tmp)
\* append writes into the stored slice's array when the capacity allows,
\* the sort and the compaction (which zeroes the dropped tail) work in place
AppendSortCompact(heap, stored, verbs) ==
    LET n         == stored.len + Len(verbs)
        inPlace   == n <= Len(heap[stored.arr])
        compacted == SlicesCompact(SlicesSort(View(heap, stored) \o verbs))
        content   == compacted \o Zeroes(n - Len(compacted))
    IN IF inPlace
       THEN [heap  |-> [heap EXCEPT ![stored.arr] =
                           content \o SubSeq(heap[stored.arr], n + 1, Len(heap[stored.arr]))],
             slice |-> [arr |-> stored.arr, len |-> Len(compacted)]]
       ELSE [heap  |-> Append(heap, content),
             slice |-> [arr |-> Len(heap) + 1, len |-> Len(compacted)]]

RECURSIVE GetMapFrom(_, _, _, _)
GetMapFrom(policyRules, i, map, heap) ==
    IF i > Len(policyRules) THEN [map |-> map, heap |-> heap]
    ELSE LET policyRule == policyRules[i]
             key        == MapKey(policyRule)
         IN IF key \in DOMAIN map
            THEN LET merged == AppendSortCompact(heap, map[key].Verbs,
                                                 View(heap, policyRule.Verbs))
                 IN GetMapFrom(policyRules, i + 1,
                               [map EXCEPT ![key] = [policyRule EXCEPT !.Verbs = merged.slice]],
                               merged.heap)
            ELSE GetMapFrom(policyRules, i + 1, (key :> policyRule) @@ map, heap)

\* key -> rule; the verbs are read off the arrays as they are at the end
GetMapFromStretchedPolicyRules(policyRules, heap) ==
    LET Read(built) ==
            [key \in DOMAIN built.map |->
                [built.map[key] EXCEPT !.Verbs = View(built.heap, built.map[key].Verbs)]]
    IN Read(GetMapFrom(policyRules, 1, <<>>, heap))

\* expand, stretch, key-and-merge of one rule list (SyncTarget, first half)
RuleMap(policyRules) ==
    GetMapFromStretchedPolicyRules(
        StretchPolicyRules(ExpandPolicyRules(policyRules)), VerbArrays(policyRules))

(***************************************************************************)
(* Stage D: EvaluateSpecialCases, EvaluatePolicyRules                      *)
(***************************************************************************)
\* allowed verbs that are not denied; the order is that of a Go map range
GetSurvivingVerbs(allowVerbs, denyVerbs) ==
    MapRange({v \in Range(allowVerbs) : v \notin Range(denyVerbs)})

Without(map, keys) == [k \in DOMAIN map \ keys |-> map[k]]

\* the GVKR whose kind is listed: the last one of the group with that type
LastGvkr(group, resourceType) ==
    LET gvkrs == ResourcesByGroup[group]
        hits  == {j \in DOMAIN gvkrs : gvkrs[j].Resource = resourceType}
    IN IF hits = {} THEN [Kind |-> ""]
       ELSE gvkrs[CHOOSE j \in hits : \A h \in hits : h <= j]

\* ExpandNames that forgets delete(allowMap, key)
ExpandNames_KeepBroad(allows, key, policyRule, items) ==
    LET tmpGvkr == LastGvkr(policyRule.APIGroups[1], Split(policyRule.Resources[1], "/")[1])
        names   == items[tmpGvkr.Kind]
        perName == [k \in {key \o n : n \in names} |->
                       [APIGroups       |-> allows[key].APIGroups,
                        Resources       |-> allows[key].Resources,
                        ResourceNames   |-> <<SubSeq(k, Len(key) + 1, Len(k))>>,
                        NonResourceURLs |-> <<>>,
                        Verbs           |-> allows[key].Verbs]]
    IN perName @@ allows

\* one deny key naming an instance, with the broad allow `key` present
ExpandNames(allows, key, policyRule, items) ==
    LET tmpGvkr == LastGvkr(policyRule.APIGroups[1], Split(policyRule.Resources[1], "/")[1])
        names   == items[tmpGvkr.Kind]
        perName == [k \in {key \o n : n \in names} |->
                       [APIGroups       |-> allows[key].APIGroups,
                        Resources       |-> allows[key].Resources,
                        ResourceNames   |-> <<SubSeq(k, Len(key) + 1, Len(k))>>,
                        NonResourceURLs |-> <<>>,
                        Verbs           |-> allows[key].Verbs]]
    IN Without(perName @@ allows, {key})

RECURSIVE SpecialCasesFrom(_, _, _, _)
SpecialCasesFrom(denyKeys, allows, denies, list) ==
    IF Len(denyKeys) = 0 THEN [err |-> FALSE, rules |-> allows]
    ELSE LET denyMapkey == denyKeys[1]
             parts      == Split(denyMapkey, "#")
             key        == Join(SubSeq(parts, 1, 2), "#") \o "#"
         IN IF HasPrefix(denyMapkey, "nonresourceurl") \/ parts[3] = ""
               \/ key \notin DOMAIN allows
            THEN SpecialCasesFrom(Tail(denyKeys), allows, denies, list)
            ELSE IF list.err THEN [err |-> TRUE, rules |-> <<>>]
            ELSE SpecialCasesFrom(Tail(denyKeys),
                     ExpandNames(allows, key, denies[denyMapkey], list.items),
                     denies, list)

EvaluateSpecialCases(allows, denies, list) ==
    SpecialCasesFrom(KeysInOrder(DOMAIN denies), allows, denies, list)

\* SubtractPrefix that subtracts from every allow, whatever its key
SubtractPrefix_AnyKey(allows, prefix, denyVerbs) ==
    LET subtracted == [k \in DOMAIN allows |->
                          [allows[k] EXCEPT !.Verbs = GetSurvivingVerbs(@, denyVerbs)]]
    IN Without(subtracted, {k \in DOMAIN subtracted : Len(subtracted[k].Verbs) = 0})

\* the two prefix loops: subtract where the key matches, drop what is empty
SubtractPrefix(allows, prefix, denyVerbs) ==
    LET subtracted == [k \in DOMAIN allows |->
                          IF HasPrefix(k, prefix)
                          THEN [allows[k] EXCEPT !.Verbs = GetSurvivingVerbs(@, denyVerbs)]
                          ELSE allows[k]]
    IN Without(subtracted, {k \in DOMAIN subtracted : Len(subtracted[k].Verbs) = 0})

\* SubtractExact that stores what is left under the key and never deletes it
SubtractExact_NoDelete(allows, key, denyVerbs) ==
    LET stored == IF key \in DOMAIN allows THEN allows[key]
                  ELSE [APIGroups |-> <<>>, Resources |-> <<>>, ResourceNames |-> <<>>,
                        NonResourceURLs |-> <<>>, Verbs |-> <<>>]
    IN (key :> [stored EXCEPT !.Verbs = GetSurvivingVerbs(@, denyVerbs)]) @@ allows

\* the exact match: subtract from the allow of that very key
SubtractExact(allows, key, denyVerbs) ==
    IF key \notin DOMAIN allows THEN allows
    ELSE LET verbs == GetSurvivingVerbs(allows[key].Verbs, denyVerbs)
         IN IF Len(verbs) = 0 THEN Without(allows, {key})
            ELSE [allows EXCEPT ![key].Verbs = verbs]

\* EvaluateDeny without the prefix loops: every deny is taken as exact
EvaluateDeny_ExactOnly(allows, denyMapKey, policyRule) ==
    SubtractExact(allows, denyMapKey, policyRule.Verbs)

\* one deny of the map against the allows: by prefix or by exact key
EvaluateDeny(allows, denyMapKey, policyRule) ==
    IF HasPrefix(denyMapKey, "nonresourceurl")
    THEN IF HasSuffix(denyMapKey, "*")
         THEN SubtractPrefix(allows, TrimSuffix(denyMapKey, "*"), policyRule.Verbs)
         ELSE SubtractExact(allows, denyMapKey, policyRule.Verbs)
    ELSE IF Split(denyMapKey, "#")[3] = ""
         THEN SubtractPrefix(allows, denyMapKey, policyRule.Verbs)
         ELSE SubtractExact(allows, denyMapKey, policyRule.Verbs)

RECURSIVE EvaluateFrom(_, _, _)
EvaluateFrom(denyKeys, allows, denies) ==
    IF Len(denyKeys) = 0 THEN allows
    ELSE EvaluateFrom(Tail(denyKeys),
                      EvaluateDeny(allows, denyKeys[1], denies[denyKeys[1]]), denies)

EvaluatePolicyRules(allows, denies) ==
    EvaluateFrom(KeysInOrder(DOMAIN denies), allows, denies)

(***************************************************************************)
(* The compiler run on its own: the inputs                                 *)
(***************************************************************************)
ResourceRule(groups, resources, names, verbs, spare) ==
    [APIGroups |-> groups, Resources |-> resources, ResourceNames |-> names,
     NonResourceURLs |-> <<>>, Verbs |-> verbs, VerbsCap |-> Len(verbs) + spare]

UrlRule(urls, verbs, spare) ==
    [APIGroups |-> <<>>, Resources |-> <<>>, ResourceNames |-> <<>>,
     NonResourceURLs |-> urls, Verbs |-> verbs, VerbsCap |-> Len(verbs) + spare]

\* the rules spec.allow is drawn from
AllowMenu(spare) ==
    { ResourceRule(<<"">>, <<"pods">>, <<>>, <<"list">>, spare),
      ResourceRule(<<"">>, <<"pods">>, <<"a">>, <<"delete", "escalate">>, spare),
      ResourceRule(<<"">>, <<"pods", "nodes">>, <<>>, <<"get", "watch">>, spare),
      ResourceRule(<<"">>, <<"nodes">>, <<>>, <<"get", "get">>, spare),
      ResourceRule(<<"*">>, <<"pods", "pods/log">>, <<>>, <<"*">>, spare),
      UrlRule(<<"/api/*", "/api/secrets/x", "/healthz">>, <<"get", "list">>, spare) }

\* the rules spec.deny is drawn from
DenyMenu(spare) ==
    { ResourceRule(<<"">>, <<"pods">>, <<>>, <<"list">>, spare),
      ResourceRule(<<"*">>, <<"pods">>, <<"a">>, <<"delete">>, spare),
      ResourceRule(<<"">>, <<"pods">>, <<"b">>, <<"get">>, spare),
      ResourceRule(<<"">>, <<"pods">>, <<"a">>, <<"*">>, spare),
      ResourceRule(<<"">>, <<"pods", "deployments">>, <<>>, <<"*">>, spare),
      UrlRule(<<"/api/secrets*", "/metrics">>, <<"get">>, spare) }

RuleLists(menu, n) == UNION {[1..k -> menu] : k \in 0..n}

\* the names of the live pods; the other kinds have fixed instances
InstanceNames == {"a", "b"}

Items(pods) ==
    [kind \in {"Pod", "PodMetrics", "Node"} |->
        IF kind = "Pod" THEN pods ELSE IF kind = "PodMetrics" THEN {"c"} ELSE {"n1"}]

Listers ==
    {[err |-> FALSE, items |-> Items(pods)] : pods \in SUBSET InstanceNames}
    \cup {[err |-> TRUE, items |-> Items({})]}

InitCompile ==
    /\ stage = "input"
    /\ \E spare \in 0..MaxSpare :
          /\ allow \in RuleLists(AllowMenu(spare), MaxAllow)
          /\ deny \in RuleLists(DenyMenu(spare), MaxDeny)
    /\ lister \in Listers
    /\ allowMap = <<>>
    /\ denyMap = <<>>
    /\ result = [err |-> FALSE, rules |-> <<>>]
    /\ rangeStart \in RangeStarts
    /\ discovery = ClusterDiscovery
    /\ inventory = ClusterInventory
    /\ NoWorld

\* SyncTarget up to the evaluated map: expand, stretch, key both lists,
\* evaluate the special cases, subtract
Compile(allowRules, denyRules, list) ==
    LET Evaluate(allows, denies, special) ==
            [allowMap |-> allows,
             denyMap  |-> denies,
             result   |-> IF special.err THEN [err |-> TRUE, rules |-> <<>>]
                          ELSE [err |-> FALSE,
                                rules |-> EvaluatePolicyRules(special.rules, denies)]]
        Special(allows, denies) ==
            Evaluate(allows, denies, EvaluateSpecialCases(allows, denies, list))
    IN Special(RuleMap(allowRules), RuleMap(denyRules))

CompileRules ==
    /\ stage = "input"
    /\ LET Store(c) == /\ allowMap' = c.allowMap
                       /\ denyMap' = c.denyMap
                       /\ result' = c.result
       IN Store(Compile(allow, deny, lister))
    /\ stage' = "done"
    /\ UNCHANGED <<allow, deny, lister, rangeStart, discovery, inventory>>
    /\ UNCHANGED worldVars

NextCompile == CompileRules

SpecCompile == InitCompile /\ [][NextCompile]_vars

(***************************************************************************)
(* The inventory on its own (SpecInventory): NewPolicyRuleProcessor on the *)
(* answers discovery can give                                              *)
(***************************************************************************)
MaxLists == 3       \* group/version lists in one discovery answer

ApiResource(name, kind, namespaced, verbs) ==
    [Name |-> name, Kind |-> kind, Namespaced |-> namespaced, Verbs |-> verbs]

\* group/version -> the resource lists it may serve; batch is served in two
\* versions, and the older one does not serve jobs
GroupVersionMenu ==
    [gv \in {"v1", "batch/v1", "batch/v1beta1", "metrics.k8s.io/v1beta1"} |->
        CASE gv = "v1" ->
               { << ApiResource("pods", "Pod", TRUE, <<"get", "list", "watch">>),
                    ApiResource("pods/log", "Pod", TRUE, <<"get">>),
                    ApiResource("nodes", "Node", FALSE, <<"get", "list">>) >>,
                 << ApiResource("pods", "Pod", TRUE, <<"get", "list", "watch">>) >> }
          [] gv = "batch/v1" ->
               { << ApiResource("jobs", "Job", TRUE, <<"get", "create">>),
                    ApiResource("jobs/status", "Job", TRUE, <<"get", "update">>),
                    ApiResource("cronjobs", "CronJob", TRUE, <<"get", "create">>) >>,
                 << ApiResource("jobs", "Job", TRUE, <<"get", "create">>) >> }
          [] gv = "batch/v1beta1" ->
               { << ApiResource("cronjobs", "CronJob", TRUE, <<"get">>) >>, <<>> }
          [] OTHER ->
               { << ApiResource("pods", "PodMetrics", TRUE, <<"get", "list">>) >> } ]

ResourcesLists ==
    UNION { {[GroupVersion |-> gv, APIResources |-> resources] :
                resources \in GroupVersionMenu[gv]} : gv \in DOMAIN GroupVersionMenu }

\* discovery answers one list per group/version, or fails
DiscoveryAnswers ==
    {[err |-> TRUE, lists |-> <<>>]}
        \cup {[err |-> FALSE, lists |-> lists] :
                 lists \in UNION { {l \in [1..n -> ResourcesLists] :
                                       \A i, j \in 1..n :
                                          i # j => l[i].GroupVersion # l[j].GroupVersion} :
                                   n \in 0..MaxLists }}

InitInventory ==
    /\ stage = "discovery"
    /\ allow = <<>>
    /\ deny = <<>>
    /\ lister = [err |-> FALSE, items |-> Items({})]
    /\ allowMap = <<>>
    /\ denyMap = <<>>
    /\ result = [err |-> FALSE, rules |-> <<>>]
    /\ rangeStart = 0
    /\ discovery \in DiscoveryAnswers
    /\ inventory = [err |-> FALSE, ResourcesByGroup |-> <<>>, ResourceList |-> <<>>]
    /\ NoWorld

BuildInventory ==
    /\ stage = "discovery"
    /\ inventory' = NewPolicyRuleProcessor(discovery)
    /\ stage' = "inventoried"
    /\ UNCHANGED <<allow, deny, lister, allowMap, denyMap, result, rangeStart, discovery>>
    /\ UNCHANGED worldVars

NextInventory == BuildInventory

SpecInventory == InitInventory /\ [][NextInventory]_vars

(***************************************************************************)
(* Properties of the compiler                                              *)
(***************************************************************************)
Compiled == stage = "done" /\ ~result.err

IsUrlRule(rule) == Len(rule.NonResourceURLs) # 0

\* (group, resource, resourceName, verb) and (url, verb) tuples of a map
NameOf(rule) == IF Len(rule.ResourceNames) # 0 THEN rule.ResourceNames[1] ELSE ""

Tuples(map) ==
    UNION { IF IsUrlRule(map[k])
            THEN {[url |-> map[k].NonResourceURLs[1], verb |-> v] :
                      v \in Range(map[k].Verbs)}
            ELSE {[group |-> map[k].APIGroups[1], resource |-> map[k].Resources[1],
                   name |-> NameOf(map[k]), verb |-> v] : v \in Range(map[k].Verbs)}
          : k \in DOMAIN map }

ResourceTuples(map) == {t \in Tuples(map) : "group" \in DOMAIN t}
UrlTuples(map) == {t \in Tuples(map) : "url" \in DOMAIN t}

\* a deny naming an instance of a resource the allow map holds broadly
NameExpanded(group, resource) ==
    /\ \E t \in ResourceTuples(allowMap) :
          t.group = group /\ t.resource = resource /\ t.name = ""
    /\ \E d \in ResourceTuples(denyMap) :
          d.group = group /\ d.resource = resource /\ d.name # ""

\* the live instances of a resource, as the instance lister returns them
Live(group, resource) ==
    lister.items[LastGvkr(group, Split(resource, "/")[1]).Kind]

\* the allow tuples, a broad allow that a deny names an instance of being
\* replaced by one allow per live instance
AllowTuples ==
    {t \in ResourceTuples(allowMap) : ~(t.name = "" /\ NameExpanded(t.group, t.resource))}
    \cup UNION { {[t EXCEPT !.name = n] : n \in Live(t.group, t.resource)}
                 : t \in {u \in ResourceTuples(allowMap) :
                              u.name = "" /\ NameExpanded(u.group, u.resource)} }
    \cup UrlTuples(allowMap)

\* a deny tuple covers an allow tuple: same verb, and the same key, or the
\* broad deny of the resource, or the URL prefix before a trailing '*'
Denied(t) ==
    \E d \in Tuples(denyMap) :
        /\ d.verb = t.verb
        /\ IF "url" \in DOMAIN t
           THEN /\ "url" \in DOMAIN d
                /\ \/ d.url = t.url
                   \/ HasSuffix(d.url, "*") /\ HasPrefix(t.url, TrimSuffix(d.url, "*"))
           ELSE /\ "group" \in DOMAIN d
                /\ d.group = t.group /\ d.resource = t.resource
                /\ (d.name = "" \/ d.name = t.name)

\* C1 (as claimed): the tuples of the compiled output are the allow tuples
\* minus the deny tuples; verbs of allows that no deny matches are kept.
C1_OutputIsAllowMinusDeny ==
    Compiled => Tuples(result.rules) = {t \in AllowTuples : ~Denied(t)}

\* the verbs the deny map takes from the key (group, resource, name)
DeniedVerbs(group, resource, name) ==
    {d.verb : d \in {x \in ResourceTuples(denyMap) :
                        x.group = group /\ x.resource = resource
                        /\ (x.name = "" \/ x.name = name)}}

ResourceKey(group, resource, name) == group \o "#" \o resource \o "#" \o name

\* C2: with a broad allow of a resource and a deny naming an instance of it,
\* the output holds no broad rule of that resource and, for each live
\* instance the lister returns, a rule with the broad allow's verbs minus
\* the verbs denied on that instance (all of them where nothing is denied).
C2_NameScopedDeny ==
    Compiled =>
        \A d \in ResourceTuples(denyMap) :
            LET broadKey == ResourceKey(d.group, d.resource, "")
            IN (d.name # "" /\ broadKey \in DOMAIN allowMap) =>
                  /\ broadKey \notin DOMAIN result.rules
                  /\ \A n \in Live(d.group, d.resource) :
                        LET key   == ResourceKey(d.group, d.resource, n)
                            verbs == Range(allowMap[broadKey].Verbs)
                                     \ DeniedVerbs(d.group, d.resource, n)
                        IN IF verbs = {} THEN key \notin DOMAIN result.rules
                           ELSE /\ key \in DOMAIN result.rules
                                /\ Range(result.rules[key].Verbs) = verbs
                                /\ result.rules[key].APIGroups = <<d.group>>
                                /\ result.rules[key].Resources = <<d.resource>>
                                /\ result.rules[key].ResourceNames = <<n>>

\* a denied live instance with fewer verbs than the broad allow, beside
\* another live instance that keeps them all
C2_Witness ==
    /\ Compiled
    /\ "#pods#" \in DOMAIN allowMap
    /\ "#pods#a" \in DOMAIN denyMap
    /\ {"#pods#a", "#pods#b"} \subseteq DOMAIN result.rules
    /\ "#pods#" \notin DOMAIN result.rules
    /\ Range(result.rules["#pods#b"].Verbs) = Range(allowMap["#pods#"].Verbs)
    /\ Range(result.rules["#pods#a"].Verbs)
           = Range(allowMap["#pods#"].Verbs) \ Range(denyMap["#pods#a"].Verbs)
    /\ Range(result.rules["#pods#a"].Verbs) # Range(allowMap["#pods#"].Verbs)

\* the group/version lists of discovery that serve (group, resource)
InDiscovery(group, resource) ==
    \E i \in DOMAIN ServerGroupsAndResources :
        LET gv == Split(ServerGroupsAndResources[i].GroupVersion, "/")
        IN /\ group = (IF Len(gv) = 2 THEN gv[1] ELSE "")
           /\ \E j \in DOMAIN ServerGroupsAndResources[i].APIResources :
                  ServerGroupsAndResources[i].APIResources[j].Name = resource

\* C3: every resource rule of the output names one group and one
\* resource[/subresource] that the discovered inventory serves in that group.
C3_OutputInInventory ==
    Compiled =>
        \A k \in DOMAIN result.rules :
            ~IsUrlRule(result.rules[k]) =>
                /\ Len(result.rules[k].APIGroups) = 1
                /\ Len(result.rules[k].Resources) = 1
                /\ InDiscovery(result.rules[k].APIGroups[1], result.rules[k].Resources[1])

\* apiGroups ['*'] with pods/log: the rule lands in the core group, which
\* serves pods/log, and not in metrics.k8s.io, which serves only pods
C3_Witness ==
    /\ Compiled
    /\ \E i \in DOMAIN allow :
          Contains(allow[i].APIGroups, "*") /\ Contains(allow[i].Resources, "pods/log")
    /\ "#pods/log#" \in DOMAIN result.rules
    /\ "metrics.k8s.io#pods#" \in DOMAIN result.rules
    /\ "metrics.k8s.io#pods/log#" \notin DOMAIN result.rules

(***************************************************************************)
(* The cluster: namespaces, service accounts, regular expressions          *)
(***************************************************************************)
IsSubset(smaller, larger) ==
    \A key \in DOMAIN smaller : key \in DOMAIN larger /\ larger[key] = smaller[key]

\* a copy that keeps the destination's value under a key both maps hold
MapsCopy_KeepDst(dst, src) ==
    [k \in DOMAIN dst \cup DOMAIN src |-> IF k \in DOMAIN dst THEN dst[k] ELSE src[k]]

\* maps.Copy(dst, src)
MapsCopy(dst, src) ==
    [k \in DOMAIN dst \cup DOMAIN src |-> IF k \in DOMAIN src THEN src[k] ELSE dst[k]]

\* what Client.List answers for namespaces
NamespaceList ==
    << [Name |-> "ns1", Labels |-> [team |-> "a"]],
       [Name |-> "ns2", Labels |-> <<>>] >>

\* what Client.List answers for service accounts
ServiceAccountList ==
    << [Name |-> "sa1", Namespace |-> "ns1", Labels |-> [app |-> "x"], Annotations |-> <<>>],
       [Name |-> "sa1", Namespace |-> "ns2", Labels |-> <<>>, Annotations |-> <<>>],
       [Name |-> "sa2", Namespace |-> "ns2", Labels |-> [app |-> "x"], Annotations |-> <<>>] >>

\* regexp.Compile: the expressions the selectors use; "(" does not compile
RegexpCompiles(expression) == expression \in {"^ns1$", "^sa1$"}

\* (*Regexp).MatchString
MatchString(expression, str) ==
    \/ expression = "^ns1$" /\ str = "ns1"
    \/ expression = "^sa1$" /\ str = "sa1"

ZeroMatchRegex == [Negative |-> FALSE, Expression |-> ""]
ZeroNamespaceSelector ==
    [MatchLabels |-> <<>>, MatchList |-> <<>>, MatchRegex |-> ZeroMatchRegex]
ZeroNameSelector == [MatchList |-> <<>>, MatchRegex |-> ZeroMatchRegex]
ZeroMetaSelector == [MatchLabels |-> <<>>, MatchAnnotations |-> <<>>]

\* the number of conditions of a list that hold
Filled(conds) == Cardinality({i \in DOMAIN conds : conds[i]})

\* each returns TRUE for the error
CheckMetaSelector(metaSelector) ==
    Filled(<< metaSelector.MatchLabels # <<>>,
              metaSelector.MatchAnnotations # <<>> >>) # 1

CheckNameSelector(nameSelector) ==
    Filled(<< Len(nameSelector.MatchList) > 0,
              nameSelector.MatchRegex.Expression # "" >>) # 1

CheckNamespaceSelector(namespaceSelector) ==
    Filled(<< namespaceSelector.MatchLabels # <<>>,
              Len(namespaceSelector.MatchList) > 0,
              namespaceSelector.MatchRegex.Expression # "" >>) # 1

\* the names one namespace adds to the filtered list
FilterNamespace(namespace, namespaceSelector) ==
    LET byLabels == IF /\ namespaceSelector.MatchLabels # <<>>
                       /\ IsSubset(namespaceSelector.MatchLabels, namespace.Labels)
                    THEN <<namespace.Name>> ELSE <<>>
        byList   == IF /\ Len(namespaceSelector.MatchList) > 0
                       /\ Contains(namespaceSelector.MatchList, namespace.Name)
                    THEN <<namespace.Name>> ELSE <<>>
        matched  == MatchString(namespaceSelector.MatchRegex.Expression, namespace.Name)
        byRegex  == IF /\ namespaceSelector.MatchRegex.Expression # ""
                       /\ matched # namespaceSelector.MatchRegex.Negative
                    THEN <<namespace.Name>> ELSE <<>>
    IN byLabels \o byList \o byRegex

RECURSIVE FilterNamespacesFrom(_, _, _)
FilterNamespacesFrom(namespaceList, i, namespaceSelector) ==
    IF i > Len(namespaceList) THEN <<>>
    ELSE FilterNamespace(namespaceList[i], namespaceSelector)
         \o FilterNamespacesFrom(namespaceList, i + 1, namespaceSelector)

\* [err, namespaces]
FilterNamespaceListBySelector(namespaceList, namespaceSelector) ==
    IF namespaceSelector = ZeroNamespaceSelector
    THEN [err |-> FALSE,
          namespaces |-> [i \in DOMAIN namespaceList |-> namespaceList[i].Name]]
    ELSE IF CheckNamespaceSelector(namespaceSelector)
    THEN [err |-> TRUE, namespaces |-> <<>>]
    ELSE IF /\ namespaceSelector.MatchRegex.Expression # ""
            /\ ~RegexpCompiles(namespaceSelector.MatchRegex.Expression)
    THEN [err |-> TRUE, namespaces |-> <<>>]
    ELSE [err |-> FALSE,
          namespaces |-> FilterNamespacesFrom(namespaceList, 1, namespaceSelector)]

\* what the loop of GetServiceAccountsBySelectors does with one service
\* account: "skip", "take", or "panic" (MatchString on the zero Regexp)
SelectServiceAccount(serviceAccount, filteredNamespaceList, subject) ==
    IF /\ Len(filteredNamespaceList) # 0
       /\ ~Contains(filteredNamespaceList, serviceAccount.Namespace)
    THEN "skip"
    ELSE IF subject.MetaSelector.MatchLabels # <<>>
    THEN IF IsSubset(subject.MetaSelector.MatchLabels, serviceAccount.Labels)
         THEN "take" ELSE "skip"
    ELSE IF subject.MetaSelector.MatchAnnotations # <<>>
    THEN IF IsSubset(subject.MetaSelector.MatchAnnotations, serviceAccount.Annotations)
         THEN "take" ELSE "skip"
    ELSE IF Len(subject.NameSelector.MatchList) > 0
    THEN IF Contains(subject.NameSelector.MatchList, serviceAccount.Name)
         THEN "take" ELSE "skip"
    ELSE IF subject.NameSelector.MatchRegex.Expression = ""
    THEN "panic"
    ELSE IF MatchString(subject.NameSelector.MatchRegex.Expression, serviceAccount.Name)
            # subject.NameSelector.MatchRegex.Negative
    THEN "take" ELSE "skip"

RECURSIVE SelectFrom(_, _, _, _)
SelectFrom(list, i, filteredNamespaceList, subject) ==
    IF i > Len(list) THEN <<>>
    ELSE (IF SelectServiceAccount(list[i], filteredNamespaceList, subject) = "take"
          THEN <<list[i]>> ELSE <<>>)
         \o SelectFrom(list, i + 1, filteredNamespaceList, subject)

\* [err, panic, items]; faults are the API calls that fail in this reconcile
GetServiceAccountsBySelectors(filteredNamespaceList, subject, faults) ==
    LET failed == [err |-> TRUE, panic |-> FALSE, items |-> <<>>]
    IN IF "ListServiceAccounts" \in faults THEN failed
       ELSE IF /\ subject.NameSelector # ZeroNameSelector
               /\ subject.MetaSelector # ZeroMetaSelector
       THEN failed
       ELSE IF /\ subject.MetaSelector # ZeroMetaSelector
               /\ CheckMetaSelector(subject.MetaSelector)
       THEN failed
       ELSE IF /\ subject.NameSelector # ZeroNameSelector
               /\ CheckNameSelector(subject.NameSelector)
       THEN failed
       ELSE IF /\ subject.NameSelector.MatchRegex.Expression # ""
               /\ ~RegexpCompiles(subject.NameSelector.MatchRegex.Expression)
       THEN failed
       ELSE IF \E i \in DOMAIN ServiceAccountList :
                  SelectServiceAccount(ServiceAccountList[i], filteredNamespaceList,
                                       subject) = "panic"
       THEN [err |-> FALSE, panic |-> TRUE, items |-> <<>>]
       ELSE [err |-> FALSE, panic |-> FALSE,
             items |-> SelectFrom(ServiceAccountList, 1, filteredNamespaceList, subject)]

(***************************************************************************)
(* DynamicRoleBindingReconciler.SyncTarget                                 *)
(***************************************************************************)
ReferenceAnnotations(resource) ==
    [k \in {"kuberbac.prosimcorp.com/owner-apiversion",
            "kuberbac.prosimcorp.com/owner-kind",
            "kuberbac.prosimcorp.com/owner-name",
            "kuberbac.prosimcorp.com/owner-namespace"} |->
        IF k = "kuberbac.prosimcorp.com/owner-apiversion" THEN resource.APIVersion
        ELSE IF k = "kuberbac.prosimcorp.com/owner-kind" THEN resource.Kind
        ELSE IF k = "kuberbac.prosimcorp.com/owner-name" THEN resource.Name
        ELSE resource.Namespace]

\* Client.Update / Client.Delete on the objects of one kind
Updated(objects, key, object) ==
    [k \in DOMAIN objects \cup {key} |-> IF k = key THEN object ELSE objects[k]]

Deleted(objects, key) == [k \in DOMAIN objects \ {key} |-> objects[k]]

\* one write of a reconcile, as the API server sees it
Call(verb, kind, namespace, name, object, ok) ==
    [verb |-> verb, kind |-> kind, namespace |-> namespace, name |-> name,
     object |-> object, ok |-> ok]

\* the subjects of Group and User sources
NamedSubjects(subject) ==
    [i \in DOMAIN subject.NameSelector.MatchList |->
        [Kind |-> subject.Kind, APIGroup |-> subject.ApiGroup,
         Name |-> subject.NameSelector.MatchList[i], Namespace |-> ""]]

ServiceAccountSubjects(subject, items) ==
    [i \in DOMAIN items |->
        [Kind |-> "ServiceAccount", APIGroup |-> subject.ApiGroup,
         Name |-> items[i].Name, Namespace |-> items[i].Namespace]]

\* ExpandSubjects that lets users and groups be named by regular expression
ExpandSubjects_RegexAllowed(subject, subjectFilteredNamespaces, faults) ==
    IF subject.Kind \in {"Group", "User"}
    THEN [err |-> FALSE, panic |-> FALSE, subjects |-> NamedSubjects(subject)]
    ELSE LET serviceAccounts ==
                 GetServiceAccountsBySelectors(subjectFilteredNamespaces, subject, faults)
         IN [err |-> serviceAccounts.err, panic |-> serviceAccounts.panic,
             subjects |-> ServiceAccountSubjects(subject, serviceAccounts.items)]

\* [err, panic, subjects]
ExpandSubjects(subject, subjectFilteredNamespaces, faults) ==
    IF subject.Kind \in {"Group", "User"}
    THEN IF subject.NameSelector.MatchRegex # ZeroMatchRegex
              \/ subject.NameSelector.MatchList = <<>>
         THEN [err |-> TRUE, panic |-> FALSE, subjects |-> <<>>]
         ELSE [err |-> FALSE, panic |-> FALSE, subjects |-> NamedSubjects(subject)]
    ELSE LET serviceAccounts ==
                 GetServiceAccountsBySelectors(subjectFilteredNamespaces, subject, faults)
         IN [err |-> serviceAccounts.err, panic |-> serviceAccounts.panic,
             subjects |-> ServiceAccountSubjects(subject, serviceAccounts.items)]

\* the generic binding, with the reference annotations in place of the merge
BindingResource_ReferenceOnly(resource, expandedSubjects) ==
    [Name        |-> resource.Spec.Targets.Name,
     Namespace   |-> "",
     Labels      |-> resource.Spec.Targets.Labels,
     Annotations |-> ReferenceAnnotations(resource),
     RoleRef     |-> [APIGroup |-> "rbac.authorization.k8s.io",
                      Kind |-> "ClusterRole",
                      Name |-> resource.Spec.Source.ClusterRole],
     Subjects    |-> expandedSubjects]

\* the generic binding SyncTarget builds before it chooses the scope
BindingResource(resource, expandedSubjects) ==
    [Name        |-> resource.Spec.Targets.Name,
     Namespace   |-> "",
     Labels      |-> resource.Spec.Targets.Labels,
     Annotations |-> MapsCopy(resource.Spec.Targets.Annotations,
                              ReferenceAnnotations(resource)),
     RoleRef     |-> [APIGroup |-> "rbac.authorization.k8s.io",
                      Kind |-> "ClusterRole",
                      Name |-> resource.Spec.Source.ClusterRole],
     Subjects    |-> expandedSubjects]

\* the outcome of SyncTarget: its error, whether it panicked, its writes and
\* the bindings it leaves
SyncResult(err, panic, writes, crbs, rbs) ==
    [err |-> err, panic |-> panic, calls |-> writes,
     clusterRoleBindings |-> crbs, roleBindings |-> rbs]

\* the cluster-scoped branch without the review of the reference annotations
SyncClusterRoleBinding_NoReview(resource, binding, crbs, rbs, faults) ==
    LET name == resource.Spec.Targets.Name
    IN IF "GetClusterRoleBinding" \in faults
       THEN SyncResult(TRUE, FALSE, <<>>, crbs, rbs)
       ELSE IF "UpdateClusterRoleBinding" \in faults
       THEN SyncResult(TRUE, FALSE,
                       <<Call("Update", "ClusterRoleBinding", "", name, binding, FALSE)>>,
                       crbs, rbs)
       ELSE SyncResult(FALSE, FALSE,
                       <<Call("Update", "ClusterRoleBinding", "", name, binding, TRUE)>>,
                       Updated(crbs, name, binding), rbs)

\* the cluster-scoped branch
SyncClusterRoleBinding(resource, binding, crbs, rbs, faults) ==
    LET name == resource.Spec.Targets.Name
    IN IF "GetClusterRoleBinding" \in faults
       THEN SyncResult(TRUE, FALSE, <<>>, crbs, rbs)
       ELSE IF /\ name \in DOMAIN crbs
               /\ ~IsSubset(ReferenceAnnotations(resource), crbs[name].Annotations)
       THEN SyncResult(FALSE, FALSE, <<>>, crbs, rbs)
       ELSE IF "UpdateClusterRoleBinding" \in faults
       THEN SyncResult(TRUE, FALSE,
                       <<Call("Update", "ClusterRoleBinding", "", name, binding, FALSE)>>,
                       crbs, rbs)
       ELSE SyncResult(FALSE, FALSE,
                       <<Call("Update", "ClusterRoleBinding", "", name, binding, TRUE)>>,
                       Updated(crbs, name, binding), rbs)

\* the loop over the targeted namespaces; acc is [err, calls, roleBindings]
RECURSIVE UpsertRoleBindings(_, _, _, _, _, _)
UpsertRoleBindings(namespaces, i, existent, binding, faults, acc) ==
    IF i > Len(namespaces) THEN acc
    ELSE LET namespace == namespaces[i]
             key       == <<namespace, binding.Name>>
             object    == [binding EXCEPT !.Namespace = namespace]
             roleBindingFound ==
                 /\ key \in DOMAIN existent
                 /\ ~IsSubset(binding.Annotations, existent[key].Annotations)
             failed    == ("UpdateRoleBinding/" \o namespace) \in faults
             next      ==
                 IF roleBindingFound THEN acc
                 ELSE [err   |-> failed,
                       calls |-> Append(acc.calls,
                                        Call("Update", "RoleBinding", namespace,
                                             binding.Name, object, ~failed)),
                       roleBindings |-> IF failed THEN acc.roleBindings
                                        ELSE Updated(acc.roleBindings, key, object)]
         IN UpsertRoleBindings(namespaces, i + 1, existent, binding, faults, next)

\* a reaping that deletes whatever lives in the complementary namespaces
RECURSIVE ReapRoleBindings_AnyOwner(_, _, _, _, _, _, _)
ReapRoleBindings_AnyOwner(keys, i, existent, reference, complementary, faults, acc) ==
    IF i > Len(keys) THEN acc
    ELSE LET key    == keys[i]
             failed == ("DeleteRoleBinding/" \o key[1]) \in faults
             next   ==
                 IF Contains(complementary, key[1])
                 THEN [err   |-> failed,
                       calls |-> Append(acc.calls,
                                        Call("Delete", "RoleBinding", key[1], key[2],
                                             existent[key], ~failed)),
                       roleBindings |-> IF failed THEN acc.roleBindings
                                        ELSE Deleted(acc.roleBindings, key)]
                 ELSE acc
         IN ReapRoleBindings_AnyOwner(keys, i + 1, existent, reference, complementary,
                                      faults, next)

\* the loop over the role bindings listed before the upserts
RECURSIVE ReapRoleBindings(_, _, _, _, _, _, _)
ReapRoleBindings(keys, i, existent, reference, complementary, faults, acc) ==
    IF i > Len(keys) THEN acc
    ELSE LET key    == keys[i]
             failed == ("DeleteRoleBinding/" \o key[1]) \in faults
             next   ==
                 IF /\ IsSubset(reference, existent[key].Annotations)
                    /\ Contains(complementary, key[1])
                 THEN [err   |-> failed,
                       calls |-> Append(acc.calls,
                                        Call("Delete", "RoleBinding", key[1], key[2],
                                             existent[key], ~failed)),
                       roleBindings |-> IF failed THEN acc.roleBindings
                                        ELSE Deleted(acc.roleBindings, key)]
                 ELSE acc
         IN ReapRoleBindings(keys, i + 1, existent, reference, complementary, faults, next)

\* the namespaces of the list that are not targeted
Complementary(namespaceList, targeted) ==
    SelectSeq([i \in DOMAIN namespaceList |-> namespaceList[i].Name],
              LAMBDA n : ~Contains(targeted, n))

\* the items of a list call, in the order of their keys
RECURSIVE ListKeys(_)
ListKeys(keys) ==
    IF keys = {} THEN <<>>
    ELSE LET first == CHOOSE k \in keys : TRUE
         IN <<first>> \o ListKeys(keys \ {first})

\* the namespaced branch
SyncRoleBindings(resource, binding, crbs, rbs, faults) ==
    IF "ListRoleBindings" \in faults THEN SyncResult(TRUE, FALSE, <<>>, crbs, rbs)
    ELSE LET targets == FilterNamespaceListBySelector(NamespaceList,
                            resource.Spec.Targets.NamespaceSelector)
         IN IF targets.err THEN SyncResult(TRUE, FALSE, <<>>, crbs, rbs)
            ELSE LET upserted == UpsertRoleBindings(targets.namespaces, 1, rbs, binding,
                                     faults, [err |-> FALSE, calls |-> <<>>,
                                              roleBindings |-> rbs])
                     reaped   == ReapRoleBindings(ListKeys(DOMAIN rbs), 1, rbs,
                                     ReferenceAnnotations(resource),
                                     Complementary(NamespaceList, targets.namespaces),
                                     faults, upserted)
                 IN SyncResult(reaped.err, FALSE, reaped.calls, crbs, reaped.roleBindings)

\* maps.Copy(resource.Spec.Targets.Annotations, referenceAnnotations): the
\* map of the CR that SyncTarget received is the destination
CopyReferenceAnnotations(resource) ==
    [resource EXCEPT !.Spec.Targets.Annotations =
        MapsCopy(@, ReferenceAnnotations(resource))]

\* the CR object as SyncTarget leaves it in memory, next to its outcome
Leaving(resource, sync) == [resource |-> resource] @@ sync

\* DynamicRoleBindingReconciler.SyncTarget
SyncTargetBinding(resource, crbs, rbs, faults) ==
    LET subject == resource.Spec.Source.Subject
        failed  == Leaving(resource, SyncResult(TRUE, FALSE, <<>>, crbs, rbs))
    IN IF subject.Kind \notin {"ServiceAccount", "User", "Group"} THEN failed
       ELSE IF /\ subject.Kind \in {"Group", "User"}
               /\ \/ subject.NamespaceSelector # ZeroNamespaceSelector
                  \/ subject.MetaSelector # ZeroMetaSelector
       THEN failed
       ELSE IF "ListNamespaces" \in faults THEN failed
       ELSE LET filtered == FilterNamespaceListBySelector(NamespaceList,
                                subject.NamespaceSelector)
            IN IF filtered.err THEN failed
               ELSE LET expanded == ExpandSubjects(subject, filtered.namespaces, faults)
                        binding  == BindingResource(resource, expanded.subjects)
                    IN IF expanded.panic
                       THEN Leaving(resource, SyncResult(FALSE, TRUE, <<>>, crbs, rbs))
                       ELSE IF expanded.err THEN failed
                       ELSE IF resource.Spec.Targets.ClusterScoped
                       THEN Leaving(CopyReferenceAnnotations(resource),
                                SyncClusterRoleBinding(resource, binding, crbs, rbs, faults))
                       ELSE Leaving(CopyReferenceAnnotations(resource),
                                SyncRoleBindings(resource, binding, crbs, rbs, faults))

(***************************************************************************)
(* DynamicClusterRoleReconciler.SyncTarget                                 *)
(***************************************************************************)
\* maps.Values(result), in the order of a range over the map
MapValues(map) ==
    LET keys == MapRange(DOMAIN map) IN [i \in DOMAIN keys |-> map[keys[i]]]

\* whether the inventory records the rule's resource as namespaced:
\* "namespace", "cluster", or "none" when the group does not list it
ScopeOf(policyRule) ==
    LET group == policyRule.APIGroups[1]
        gvkrs == IF group \in DOMAIN ResourcesByGroup THEN ResourcesByGroup[group]
                 ELSE <<>>
        hits  == {i \in DOMAIN gvkrs : ResourceName(gvkrs[i]) = policyRule.Resources[1]}
    IN IF hits = {} THEN "none"
       ELSE LET first == CHOOSE i \in hits : \A j \in hits : i <= j
            IN IF gvkrs[first].Namespaced THEN "namespace" ELSE "cluster"

\* a rule without apiGroups (a nonResourceURLs rule) makes the split index
\* an empty slice
SplitPanics(policyRules) ==
    \E i \in DOMAIN policyRules : Len(policyRules[i].APIGroups) = 0

\* [clusterScopedRules, namespaceScopedRules]
SplitPolicyRules(policyRules) ==
    [clusterScopedRules   |-> SelectSeq(policyRules, LAMBDA r : ScopeOf(r) = "cluster"),
     namespaceScopedRules |-> SelectSeq(policyRules, LAMBDA r : ScopeOf(r) = "namespace")]

\* the cluster roles SyncTarget is about to write
TargetClusterRoles(resource, rules) ==
    LET clusterRoleResource ==
            [Name        |-> resource.Spec.Target.Name,
             Annotations |-> ReferenceAnnotations(resource),
             Labels      |-> resource.Spec.Target.Labels,
             Rules       |-> rules]
    IN IF resource.Spec.Target.SeparateScopes
       THEN LET split == SplitPolicyRules(rules) IN << [clusterRoleResource EXCEPT
                    !.Rules = split.clusterScopedRules,
                    !.Name = resource.Spec.Target.Name \o "-cluster"],
               [clusterRoleResource EXCEPT
                    !.Rules = split.namespaceScopedRules,
                    !.Name = resource.Spec.Target.Name \o "-namespace"] >>
       ELSE <<clusterRoleResource>>

\* the update loop, which stops at the first error; acc is [err, calls, clusterRoles]
RECURSIVE UpdateClusterRoles(_, _, _, _)
UpdateClusterRoles(targets, i, faults, acc) ==
    IF i > Len(targets) THEN acc
    ELSE LET clusterRole == targets[i]
             failed == ("UpdateClusterRole/" \o clusterRole.Name) \in faults
             call   == Call("Update", "ClusterRole", "", clusterRole.Name, clusterRole, ~failed)
         IN IF failed
            THEN [acc EXCEPT !.err = TRUE, !.calls = Append(@, call)]
            ELSE UpdateClusterRoles(targets, i + 1, faults,
                     [acc EXCEPT !.calls = Append(@, call),
                                 !.clusterRoles = Updated(@, clusterRole.Name,
                                                          clusterRole)])

\* DynamicClusterRoleReconciler.SyncTarget: [err, panic, calls, clusterRoles,
\* resource]; it gives spec.target.annotations an empty map when it has no
\* entry, which the model does not tell from no map; the verbs arrays of
\* spec.allow and spec.deny are followed in SpecCompile only
SyncTargetRole(resource, roles, faults) ==
    LET start == [err |-> FALSE, panic |-> FALSE, calls |-> <<>>, clusterRoles |-> roles,
                  resource |-> resource]
    IN IF "Discovery" \in faults THEN [start EXCEPT !.err = TRUE]
       ELSE LET Write(rules) ==
                    IF resource.Spec.Target.SeparateScopes /\ SplitPanics(rules)
                    THEN [start EXCEPT !.panic = TRUE]
                    ELSE UpdateClusterRoles(TargetClusterRoles(resource, rules),
                                            1, faults, start)
                Evaluated(compiled) ==
                    IF compiled.result.err THEN [start EXCEPT !.err = TRUE]
                    ELSE Write(MapValues(compiled.result.rules))
            IN Evaluated(Compile(resource.Spec.Allow, resource.Spec.Deny,
                                 [err   |-> "ListInstances" \in faults,
                                  items |-> Items(InstanceNames)]))

(***************************************************************************)
(* The two Reconcile handlers                                              *)
(***************************************************************************)
resourceFinalizer == "kuberbac.prosimcorp.com/finalizer"
patchFinalizer == "kuberbac.prosimcorp.com/finalizer"

\* time.ParseDuration succeeds
ParseDuration(time) == time \in {"10s"}

\* the API server drops an object under deletion once its last finalizer goes
Stored(resource) ==
    IF resource.DeletionTimestamp /\ resource.Finalizers = {} THEN Absent
    ELSE resource

\* globals.UpdateCondition with the one condition type of the reconcilers
UpdateCondition(resource, reason) ==
    [resource EXCEPT !.Status.Conditions =
        << [Type |-> "ResourceSynced", Status |-> "True", Reason |-> reason] >>]

UpdateConditionSuccess(resource) ==
    UpdateCondition(resource, "ConditionReasonTargetSynced")

UpdateConditionKubernetesApiCallFailure(resource) ==
    UpdateCondition(resource, "ConditionReasonKubernetesApiCallErrorType")

Returned(reconciler, path, err, syncErr, teardown) ==
    [reconciler |-> reconciler, path |-> path, err |-> err, syncErr |-> syncErr,
     teardown |-> teardown]

\* what a Reconcile of the role leaves: the CR, the cluster roles, its writes
RoleOutcome(resource, roles, writes, ret) ==
    [resource |-> resource, clusterRoles |-> roles, calls |-> writes, returned |-> ret]

\* a delete loop that returns at the first delete the API server refuses
RECURSIVE DeleteClusterRoles_StopAtError(_, _, _, _, _)
DeleteClusterRoles_StopAtError(keys, i, reference, outcomes, acc) ==
    IF i > Len(keys) \/ acc.err THEN acc
    ELSE LET name    == keys[i]
             object  == acc.clusterRoles[name]
             outcome == outcomes[name]
             next    == IF ~IsSubset(reference, object.Annotations) THEN acc
                        ELSE [err   |-> acc.err \/ outcome = "refused",
                              calls |-> Append(acc.calls,
                                               Call("Delete", "ClusterRole", "", name,
                                                    object, outcome = "ok")),
                              clusterRoles |-> IF outcome = "refused"
                                               THEN acc.clusterRoles
                                               ELSE Deleted(acc.clusterRoles, name)]
         IN DeleteClusterRoles_StopAtError(keys, i + 1, reference, outcomes, next)

\* the loop of DeleteTargets over the listed cluster roles; outcomes gives
\* what Client.Delete answers for each name: "ok", "notfound" (the object
\* is gone already) or "refused"; acc is [err, calls, clusterRoles]
RECURSIVE DeleteClusterRoles(_, _, _, _, _)
DeleteClusterRoles(keys, i, reference, outcomes, acc) ==
    IF i > Len(keys) THEN acc
    ELSE LET name    == keys[i]
             object  == acc.clusterRoles[name]
             outcome == outcomes[name]
             next    == IF ~IsSubset(reference, object.Annotations) THEN acc
                        ELSE [err   |-> acc.err \/ outcome = "refused",
                              calls |-> Append(acc.calls,
                                               Call("Delete", "ClusterRole", "", name,
                                                    object, outcome = "ok")),
                              clusterRoles |-> IF outcome = "refused"
                                               THEN acc.clusterRoles
                                               ELSE Deleted(acc.clusterRoles, name)]
         IN DeleteClusterRoles(keys, i + 1, reference, outcomes, next)

\* DynamicClusterRoleReconciler.DeleteTargets: [err, calls, clusterRoles]
DeleteTargetsRole(resource, roles, listFails, outcomes) ==
    LET start == [err |-> FALSE, calls |-> <<>>, clusterRoles |-> roles]
    IN IF listFails THEN [start EXCEPT !.err = TRUE]
       ELSE DeleteClusterRoles(ListKeys(DOMAIN roles), 1, ReferenceAnnotations(resource),
                               outcomes, start)

\* DynamicClusterRoleReconciler.Reconcile, deletion timestamp set
FinalizeRole(resource, roles, faults) ==
    LET ret == Returned("DynamicClusterRole", "deleting", FALSE, FALSE, "none")
    IN IF patchFinalizer \in resource.Finalizers /\ "UpdateResource" \notin faults
       THEN RoleOutcome(Stored([resource EXCEPT !.Finalizers = @ \ {patchFinalizer}]),
                        roles, <<>>, ret)
       ELSE RoleOutcome(resource, roles, <<>>, ret)

\* DynamicClusterRoleReconciler.Reconcile, steps 5 to 8; the deferred status
\* update decides the error that is returned
SyncRole(resource, roles, faults) ==
    LET statusFails == "UpdateStatus" \in faults
    IN IF ~ParseDuration(resource.Spec.Synchronization.Time)
       THEN RoleOutcome(resource, roles, <<>>,
                Returned("DynamicClusterRole", "synctime", statusFails, FALSE, "none"))
       ELSE LET Conditioned(sync) ==
                    IF sync.err THEN UpdateConditionKubernetesApiCallFailure(resource)
                    ELSE UpdateConditionSuccess(resource)
                Synced(sync) ==
                    IF sync.panic
                    THEN RoleOutcome(resource, roles, <<>>,
                             Returned("DynamicClusterRole", "panic", TRUE, FALSE, "none"))
                    ELSE RoleOutcome(IF statusFails THEN resource ELSE Conditioned(sync),
                             sync.clusterRoles, sync.calls,
                             [spec |-> sync.resource.Spec]
                                 @@ Returned("DynamicClusterRole", "sync", statusFails,
                                             sync.err, "none"))
            IN Synced(SyncTargetRole(resource, roles, faults))

\* DynamicClusterRoleReconciler.Reconcile
ReconcileRole(resource, roles, faults) ==
    IF "GetResource" \in faults
    THEN RoleOutcome(resource, roles, <<>>,
             Returned("DynamicClusterRole", "get", TRUE, FALSE, "none"))
    ELSE IF resource = Absent
    THEN RoleOutcome(resource, roles, <<>>,
             Returned("DynamicClusterRole", "notfound", FALSE, FALSE, "none"))
    ELSE IF resource.DeletionTimestamp THEN FinalizeRole(resource, roles, faults)
    ELSE IF patchFinalizer \notin resource.Finalizers /\ "UpdateResource" \in faults
    THEN RoleOutcome(resource, roles, <<>>,
             Returned("DynamicClusterRole", "finalizer", TRUE, FALSE, "none"))
    ELSE SyncRole([resource EXCEPT !.Finalizers = @ \cup {patchFinalizer}], roles, faults)

\* what a Reconcile of the binding leaves
BindingOutcome(resource, crbs, rbs, writes, ret) ==
    [resource |-> resource, clusterRoleBindings |-> crbs, roleBindings |-> rbs,
     calls |-> writes, returned |-> ret]

\* the deletes of the owned objects of one kind; acc is [err, calls, objects]
RECURSIVE DeleteOwned(_, _, _, _, _, _)
DeleteOwned(keys, i, kind, reference, faults, acc) ==
    IF i > Len(keys) THEN acc
    ELSE LET key    == keys[i]
             object == acc.objects[key]
             ns     == IF kind = "RoleBinding" THEN key[1] ELSE ""
             name   == IF kind = "RoleBinding" THEN key[2] ELSE key
             failed == IF kind = "RoleBinding"
                       THEN ("DeleteRoleBinding/" \o ns) \in faults
                       ELSE "DeleteClusterRoleBinding" \in faults
             next   == IF ~IsSubset(reference, object.Annotations) THEN acc
                       ELSE [err     |-> acc.err \/ failed,
                             calls   |-> Append(acc.calls,
                                                Call("Delete", kind, ns, name, object,
                                                     ~failed)),
                             objects |-> IF failed THEN acc.objects
                                         ELSE Deleted(acc.objects, key)]
         IN DeleteOwned(keys, i + 1, kind, reference, faults, next)

\* DynamicRoleBindingReconciler.DeleteTargets: delete the cluster role
\* bindings and role bindings that carry the ownership annotations
DeleteTargetsBinding(resource, crbs, rbs, faults) ==
    IF "ListClusterRoleBindings" \in faults \/ "ListRoleBindings" \in faults
    THEN [err |-> TRUE, calls |-> <<>>, clusterRoleBindings |-> crbs, roleBindings |-> rbs]
    ELSE LET reference == ReferenceAnnotations(resource)
             cluster == DeleteOwned(ListKeys(DOMAIN crbs), 1, "ClusterRoleBinding",
                            reference, faults,
                            [err |-> FALSE, calls |-> <<>>, objects |-> crbs])
             spaced  == DeleteOwned(ListKeys(DOMAIN rbs), 1, "RoleBinding",
                            reference, faults,
                            [err |-> cluster.err, calls |-> cluster.calls,
                             objects |-> rbs])
         IN [err |-> spaced.err, calls |-> spaced.calls,
             clusterRoleBindings |-> cluster.objects, roleBindings |-> spaced.objects]

\* a deletion branch that clears the finalizer whatever DeleteTargets returns
FinalizeBinding_IgnoreTeardown(resource, crbs, rbs, faults) ==
    LET teardown == DeleteTargetsBinding(resource, crbs, rbs, faults)
    IN BindingOutcome(
           IF "UpdateResource" \in faults THEN resource
           ELSE Stored([resource EXCEPT !.Finalizers = @ \ {resourceFinalizer}]),
           teardown.clusterRoleBindings, teardown.roleBindings, teardown.calls,
           Returned("DynamicRoleBinding", "deleting", FALSE, FALSE,
                    IF teardown.err THEN "failed" ELSE "ok"))

\* DynamicRoleBindingReconciler.Reconcile, deletion timestamp set
FinalizeBinding(resource, crbs, rbs, faults) ==
    IF resourceFinalizer \notin resource.Finalizers
    THEN BindingOutcome(resource, crbs, rbs, <<>>,
             Returned("DynamicRoleBinding", "deleting", FALSE, FALSE, "none"))
    ELSE LET teardown == DeleteTargetsBinding(resource, crbs, rbs, faults)
         IN IF teardown.err
            THEN BindingOutcome(resource, teardown.clusterRoleBindings,
                     teardown.roleBindings, teardown.calls,
                     Returned("DynamicRoleBinding", "deleting", TRUE, FALSE, "failed"))
            ELSE BindingOutcome(
                     IF "UpdateResource" \in faults THEN resource
                     ELSE Stored([resource EXCEPT !.Finalizers = @ \ {resourceFinalizer}]),
                     teardown.clusterRoleBindings, teardown.roleBindings, teardown.calls,
                     Returned("DynamicRoleBinding", "deleting", FALSE, FALSE, "ok"))

\* DynamicRoleBindingReconciler.Reconcile, steps 5 to 8
SyncBinding(resource, crbs, rbs, faults) ==
    LET statusFails == "UpdateStatus" \in faults
    IN IF ~ParseDuration(resource.Spec.Synchronization.Time)
       THEN BindingOutcome(resource, crbs, rbs, <<>>,
                Returned("DynamicRoleBinding", "synctime", statusFails, FALSE, "none"))
       ELSE LET sync == SyncTargetBinding(resource, crbs, rbs, faults)
                conditioned == IF sync.err
                               THEN UpdateConditionKubernetesApiCallFailure(resource)
                               ELSE UpdateConditionSuccess(resource)
            IN IF sync.panic
               THEN BindingOutcome(resource, crbs, rbs, <<>>,
                        Returned("DynamicRoleBinding", "panic", TRUE, FALSE, "none"))
               ELSE BindingOutcome(IF statusFails THEN resource ELSE conditioned,
                        sync.clusterRoleBindings, sync.roleBindings, sync.calls,
                        [spec |-> sync.resource.Spec]
                            @@ Returned("DynamicRoleBinding", "sync", statusFails,
                                        sync.err, "none"))

\* DynamicRoleBindingReconciler.Reconcile
ReconcileBinding(resource, crbs, rbs, faults) ==
    IF "GetResource" \in faults
    THEN BindingOutcome(resource, crbs, rbs, <<>>,
             Returned("DynamicRoleBinding", "get", TRUE, FALSE, "none"))
    ELSE IF resource = Absent
    THEN BindingOutcome(resource, crbs, rbs, <<>>,
             Returned("DynamicRoleBinding", "notfound", FALSE, FALSE, "none"))
    ELSE IF resource.DeletionTimestamp THEN FinalizeBinding(resource, crbs, rbs, faults)
    ELSE IF resourceFinalizer \notin resource.Finalizers /\ "UpdateResource" \in faults
    THEN BindingOutcome(resource, crbs, rbs, <<>>,
             Returned("DynamicRoleBinding", "finalizer", TRUE, FALSE, "none"))
    ELSE SyncBinding([resource EXCEPT !.Finalizers = @ \cup {resourceFinalizer}],
                     crbs, rbs, faults)

(***************************************************************************)
(* The cluster and the reconcilers: source CRs, faults, actions            *)
(***************************************************************************)
\* the API calls that may fail, at most one per reconcile
FaultTags ==
    {"GetResource", "UpdateResource", "UpdateStatus", "Discovery", "ListInstances",
     "UpdateClusterRole/role", "UpdateClusterRole/role-namespace",
     "ListNamespaces", "ListServiceAccounts", "GetClusterRoleBinding",
     "UpdateClusterRoleBinding", "ListRoleBindings", "ListClusterRoleBindings",
     "UpdateRoleBinding/ns1", "DeleteRoleBinding/ns1", "DeleteRoleBinding/ns2",
     "DeleteClusterRoleBinding"}

Faults == {{}} \cup {{tag} : tag \in FaultTags}

\* spec.target of the DynamicClusterRole
RoleTarget(separateScopes) ==
    [Name |-> "role", Annotations |-> <<>>, Labels |-> <<>>,
     SeparateScopes |-> separateScopes]

RoleSpec(time, separateScopes, allowRules, denyRules) ==
    [Synchronization |-> [Time |-> time], Target |-> RoleTarget(separateScopes),
     Allow |-> allowRules, Deny |-> denyRules]

\* the specs a user gives the DynamicClusterRole
RoleSpecs ==
    { RoleSpec("10s", FALSE,
               <<ResourceRule(<<"">>, <<"pods", "nodes">>, <<>>, <<"get", "watch">>, 0)>>,
               <<>>),
      RoleSpec("10s", TRUE,
               <<ResourceRule(<<"">>, <<"pods", "nodes">>, <<>>, <<"get", "watch">>, 0)>>,
               <<ResourceRule(<<"">>, <<"pods">>, <<"a">>, <<"get">>, 0)>>),
      RoleSpec("10s", TRUE,
               <<UrlRule(<<"/healthz">>, <<"get">>, 0)>>, <<>>),
      RoleSpec("soon", FALSE,
               <<ResourceRule(<<"">>, <<"pods">>, <<>>, <<"list">>, 0)>>, <<>>) }

Resource(kind, spec) ==
    [APIVersion |-> "kuberbac.prosimcorp.com/v1alpha1", Kind |-> kind,
     Name |-> "source", Namespace |-> "default",
     Finalizers |-> {}, DeletionTimestamp |-> FALSE,
     Spec |-> spec, Status |-> [Conditions |-> <<>>]]

NamespaceSelector(labels, list, expression, negative) ==
    [MatchLabels |-> labels, MatchList |-> list,
     MatchRegex |-> [Negative |-> negative, Expression |-> expression]]

Subject(kind, nameSelector, namespaceSelector, metaSelector) ==
    [ApiGroup |-> IF kind = "ServiceAccount" THEN "" ELSE "rbac.authorization.k8s.io",
     Kind |-> kind, NameSelector |-> nameSelector,
     NamespaceSelector |-> namespaceSelector, MetaSelector |-> metaSelector]

NameList(list) == [MatchList |-> list, MatchRegex |-> ZeroMatchRegex]

AllNames == NameList(<<"sa1">>)

BindingSpec(time, subject, targets) ==
    [Synchronization |-> [Time |-> time],
     Source |-> [ClusterRole |-> "role", Subject |-> subject],
     Targets |-> targets]

Targets(annotations, clusterScoped, namespaceSelector) ==
    [Name |-> "binding", Annotations |-> annotations, Labels |-> <<>>,
     ClusterScoped |-> clusterScoped, NamespaceSelector |-> namespaceSelector]

\* specs whose selectors break the rules of SyncTarget, all aimed at ns1
InvalidBindingSpecs ==
    { BindingSpec("10s", subject,
                  Targets(<<>>, FALSE, NamespaceSelector(<<>>, <<"ns1">>, "", FALSE))) :
        subject \in
          { \* a user by regular expression, a group by labels
            Subject("User",
                    [MatchList |-> <<"alice">>,
                     MatchRegex |-> [Negative |-> FALSE, Expression |-> "^sa1$"]],
                    ZeroNamespaceSelector, ZeroMetaSelector),
            Subject("Group", NameList(<<"devs">>), ZeroNamespaceSelector,
                    [MatchLabels |-> [app |-> "x"], MatchAnnotations |-> <<>>]),
            \* service accounts: two branches of one selector, or name and meta
            Subject("ServiceAccount",
                    [MatchList |-> <<"sa1">>,
                     MatchRegex |-> [Negative |-> FALSE, Expression |-> "^sa1$"]],
                    ZeroNamespaceSelector, ZeroMetaSelector),
            Subject("ServiceAccount", ZeroNameSelector, ZeroNamespaceSelector,
                    [MatchLabels |-> [app |-> "x"], MatchAnnotations |-> [app |-> "x"]]),
            Subject("ServiceAccount", AllNames,
                    NamespaceSelector([team |-> "a"], <<"ns2">>, "", FALSE),
                    ZeroMetaSelector),
            Subject("ServiceAccount", AllNames, ZeroNamespaceSelector,
                    [MatchLabels |-> [app |-> "x"], MatchAnnotations |-> <<>>]) } }
    \cup { \* two branches of the target selector
           BindingSpec("10s",
               Subject("ServiceAccount", AllNames, ZeroNamespaceSelector, ZeroMetaSelector),
               Targets(<<>>, FALSE, NamespaceSelector(<<>>, <<"ns1">>, "^ns1$", FALSE))),
           \* the same target selector, the subject without any selector
           BindingSpec("10s",
               Subject("ServiceAccount", ZeroNameSelector, ZeroNamespaceSelector,
                       ZeroMetaSelector),
               Targets(<<>>, FALSE, NamespaceSelector(<<>>, <<"ns1">>, "^ns1$", FALSE))) }

\* the specs a user gives the DynamicRoleBinding
BindingSpecs ==
    { \* sa1 of every namespace, bound cluster-wide
      BindingSpec("10s",
          Subject("ServiceAccount", AllNames, ZeroNamespaceSelector, ZeroMetaSelector),
          Targets(<<>>, TRUE, ZeroNamespaceSelector)),
      \* the same subjects, bound in every namespace
      BindingSpec("10s",
          Subject("ServiceAccount", AllNames, ZeroNamespaceSelector, ZeroMetaSelector),
          Targets(<<>>, FALSE, ZeroNamespaceSelector)),
      \* sa1 and sa2 of ns2, bound in the namespaces labelled team=a
      BindingSpec("10s",
          Subject("ServiceAccount", NameList(<<"sa1", "sa2">>),
                  NamespaceSelector(<<>>, <<"ns2">>, "", FALSE), ZeroMetaSelector),
          Targets(<<>>, FALSE, NamespaceSelector([team |-> "a"], <<>>, "", FALSE))),
      \* sa1 of a namespace that does not exist, with a target annotation
      BindingSpec("10s",
          Subject("ServiceAccount", AllNames,
                  NamespaceSelector(<<>>, <<"ghost">>, "", FALSE), ZeroMetaSelector),
          Targets([team |-> "x"], FALSE, ZeroNamespaceSelector)),
      \* a user, bound in ns2, with a target annotation under an ownership key
      BindingSpec("10s",
          Subject("User", NameList(<<"alice">>), ZeroNamespaceSelector, ZeroMetaSelector),
          Targets([k \in {"kuberbac.prosimcorp.com/owner-name"} |-> "other"], FALSE,
                  NamespaceSelector(<<>>, <<"ns2">>, "", FALSE))),
      \* selectors by regular expression; the target's does not compile
      BindingSpec("10s",
          Subject("ServiceAccount",
                  [MatchList |-> <<>>,
                   MatchRegex |-> [Negative |-> TRUE, Expression |-> "^sa1$"]],
                  NamespaceSelector(<<>>, <<>>, "^ns1$", TRUE), ZeroMetaSelector),
          Targets(<<>>, FALSE, NamespaceSelector(<<>>, <<>>, "(", FALSE))),
      \* a service account subject without any selector
      BindingSpec("10s",
          Subject("ServiceAccount", ZeroNameSelector, ZeroNamespaceSelector,
                  ZeroMetaSelector),
          Targets(<<>>, TRUE, ZeroNamespaceSelector)),
      \* a user with a namespace selector
      BindingSpec("10s",
          Subject("User", NameList(<<"alice">>),
                  NamespaceSelector(<<>>, <<"ns1">>, "", FALSE), ZeroMetaSelector),
          Targets(<<>>, TRUE, ZeroNamespaceSelector)),
      \* a synchronization time that does not parse
      BindingSpec("soon",
          Subject("ServiceAccount", AllNames, ZeroNamespaceSelector, ZeroMetaSelector),
          Targets(<<>>, TRUE, ZeroNamespaceSelector)),
      \* sa1, bound in a namespace that does not exist
      BindingSpec("10s",
          Subject("ServiceAccount", AllNames, ZeroNamespaceSelector, ZeroMetaSelector),
          Targets(<<>>, FALSE, NamespaceSelector(<<>>, <<"ghost">>, "", FALSE))) }
    \cup InvalidBindingSpecs

\* an object of another owner
Foreign(namespace, name) ==
    [Name |-> name, Namespace |-> namespace, Labels |-> <<>>,
     Annotations |-> [owner |-> "someone"],
     RoleRef |-> [APIGroup |-> "rbac.authorization.k8s.io", Kind |-> "ClusterRole",
                  Name |-> "admin"],
     Subjects |-> <<>>]

Init ==
    /\ stage = "cluster"
    /\ allow = <<>>
    /\ deny = <<>>
    /\ lister = [err |-> FALSE, items |-> Items(InstanceNames)]
    /\ allowMap = <<>>
    /\ denyMap = <<>>
    /\ result = [err |-> FALSE, rules |-> <<>>]
    /\ discovery = ClusterDiscovery
    /\ inventory = ClusterInventory
    /\ \/ /\ dynamicClusterRole \in {Resource("DynamicClusterRole", spec) : spec \in RoleSpecs}
          /\ dynamicRoleBinding = Absent
          /\ rangeStart \in RangeStarts
       \/ /\ dynamicClusterRole = Absent
          /\ dynamicRoleBinding \in {Resource("DynamicRoleBinding", spec) : spec \in BindingSpecs}
          /\ rangeStart = 0
    /\ clusterRoles = <<>>
    /\ clusterRoleBindings = <<>>
    /\ roleBindings = <<>>
    /\ calls = <<>>
    /\ returned = NoReturn

ReconcileDynamicClusterRole ==
    /\ dynamicRoleBinding = Absent
    /\ \E faults \in Faults :
          LET Leave(outcome) == /\ dynamicClusterRole' = outcome.resource
                                /\ clusterRoles' = outcome.clusterRoles
                                /\ calls' = outcome.calls
                                /\ returned' = [faults |-> faults] @@ outcome.returned
          IN Leave(ReconcileRole(dynamicClusterRole, clusterRoles, faults))
    /\ rangeStart' \in RangeStarts
    /\ UNCHANGED <<stage, allow, deny, lister, allowMap, denyMap, result, discovery,
                   inventory>>
    /\ UNCHANGED <<dynamicRoleBinding, clusterRoleBindings, roleBindings>>

ReconcileDynamicRoleBinding ==
    /\ dynamicClusterRole = Absent
    /\ \E faults \in Faults :
          LET Leave(outcome) == /\ dynamicRoleBinding' = outcome.resource
                                /\ clusterRoleBindings' = outcome.clusterRoleBindings
                                /\ roleBindings' = outcome.roleBindings
                                /\ calls' = outcome.calls
                                /\ returned' = [faults |-> faults] @@ outcome.returned
          IN Leave(ReconcileBinding(dynamicRoleBinding, clusterRoleBindings,
                                    roleBindings, faults))
    /\ UNCHANGED <<compileVars, dynamicClusterRole, clusterRoles>>

\* calls and returned describe the last reconcile for as long as nobody else
\* has touched the cluster since
Forgotten == calls' = <<>> /\ returned' = NoReturn

\* a user edits the spec of the source CR
EditDynamicClusterRole ==
    /\ dynamicClusterRole # Absent
    /\ ~dynamicClusterRole.DeletionTimestamp
    /\ \E spec \in RoleSpecs : dynamicClusterRole' = [dynamicClusterRole EXCEPT !.Spec = spec]
    /\ UNCHANGED <<compileVars, dynamicRoleBinding, clusterRoles, clusterRoleBindings,
                   roleBindings>>
    /\ Forgotten

EditDynamicRoleBinding ==
    /\ dynamicRoleBinding # Absent
    /\ ~dynamicRoleBinding.DeletionTimestamp
    /\ \E spec \in BindingSpecs : dynamicRoleBinding' = [dynamicRoleBinding EXCEPT !.Spec = spec]
    /\ UNCHANGED <<compileVars, dynamicClusterRole, clusterRoles, clusterRoleBindings,
                   roleBindings>>
    /\ Forgotten

\* a user deletes the source CR
DeleteDynamicClusterRole ==
    /\ dynamicClusterRole # Absent
    /\ ~dynamicClusterRole.DeletionTimestamp
    /\ dynamicClusterRole' = Stored([dynamicClusterRole EXCEPT !.DeletionTimestamp = TRUE])
    /\ UNCHANGED <<compileVars, dynamicRoleBinding, clusterRoles, clusterRoleBindings,
                   roleBindings>>
    /\ Forgotten

DeleteDynamicRoleBinding ==
    /\ dynamicRoleBinding # Absent
    /\ ~dynamicRoleBinding.DeletionTimestamp
    /\ dynamicRoleBinding' = Stored([dynamicRoleBinding EXCEPT !.DeletionTimestamp = TRUE])
    /\ UNCHANGED <<compileVars, dynamicClusterRole, clusterRoles, clusterRoleBindings,
                   roleBindings>>
    /\ Forgotten

\* someone else creates an object under a name the source CR targets
CreateForeignClusterRole ==
    /\ dynamicClusterRole # Absent
    /\ \E name \in {"role", "role-cluster"} :
          /\ name \notin DOMAIN clusterRoles
          /\ clusterRoles' = Updated(clusterRoles, name,
                 [Name |-> name, Annotations |-> [owner |-> "someone"],
                  Labels |-> <<>>, Rules |-> <<>>])
    /\ UNCHANGED <<compileVars, dynamicClusterRole, dynamicRoleBinding,
                   clusterRoleBindings, roleBindings>>
    /\ Forgotten

CreateForeignClusterRoleBinding ==
    /\ dynamicRoleBinding # Absent
    /\ "binding" \notin DOMAIN clusterRoleBindings
    /\ clusterRoleBindings' = Updated(clusterRoleBindings, "binding", Foreign("", "binding"))
    /\ UNCHANGED <<compileVars, dynamicClusterRole, dynamicRoleBinding, clusterRoles,
                   roleBindings>>
    /\ Forgotten

CreateForeignRoleBinding ==
    /\ dynamicRoleBinding # Absent
    /\ \E i \in DOMAIN NamespaceList :
          LET key == <<NamespaceList[i].Name, "binding">>
          IN /\ key \notin DOMAIN roleBindings
             /\ roleBindings' = Updated(roleBindings, key, Foreign(key[1], "binding"))
    /\ UNCHANGED <<compileVars, dynamicClusterRole, dynamicRoleBinding, clusterRoles,
                   clusterRoleBindings>>
    /\ Forgotten

Next ==
    \/ ReconcileDynamicClusterRole
    \/ ReconcileDynamicRoleBinding
    \/ EditDynamicClusterRole
    \/ EditDynamicRoleBinding
    \/ DeleteDynamicClusterRole
    \/ DeleteDynamicRoleBinding
    \/ CreateForeignClusterRole
    \/ CreateForeignClusterRoleBinding
    \/ CreateForeignRoleBinding

Spec == Init /\ [][Next]_vars

(***************************************************************************)
(* Properties of the reconcilers                                           *)
(***************************************************************************)
\* DeleteTargets of the DynamicClusterRole on its own (SpecTeardown): no
\* Reconcile calls it, so it is applied to clusters drawn from a menu
TeardownNames == {"role", "role-cluster", "other"}

\* the annotations a cluster role of the cluster may carry
AnnotationMenu ==
    LET reference == ReferenceAnnotations(Resource("DynamicClusterRole",
                                                   CHOOSE spec \in RoleSpecs : TRUE))
    IN { reference,
         MapsCopy([team |-> "x"], reference),
         [reference EXCEPT !["kuberbac.prosimcorp.com/owner-name"] = "another"],
         [k \in DOMAIN reference \ {"kuberbac.prosimcorp.com/owner-namespace"} |->
             reference[k]],
         [owner |-> "someone"],
         <<>> }

\* the clusters: every name is free or taken by a cluster role
ClusterRoleWorlds ==
    UNION { [names -> AnnotationMenu] : names \in SUBSET TeardownNames }

InitTeardown ==
    /\ stage = "teardown"
    /\ allow = <<>>
    /\ deny = <<>>
    /\ lister = [err |-> FALSE, items |-> Items(InstanceNames)]
    /\ allowMap = <<>>
    /\ denyMap = <<>>
    /\ result = [err |-> FALSE, rules |-> <<>>]
    /\ rangeStart = 0
    /\ discovery = ClusterDiscovery
    /\ inventory = ClusterInventory
    /\ dynamicClusterRole \in
           { [Resource("DynamicClusterRole", spec) EXCEPT
                  !.Finalizers = {patchFinalizer}, !.DeletionTimestamp = TRUE] :
               spec \in {CHOOSE spec \in RoleSpecs : TRUE} }
    /\ dynamicRoleBinding = Absent
    /\ \E annotations \in ClusterRoleWorlds :
           clusterRoles = [name \in DOMAIN annotations |->
                              [Name |-> name, Annotations |-> annotations[name],
                               Labels |-> <<>>, Rules |-> <<>>]]
    /\ clusterRoleBindings = <<>>
    /\ roleBindings = <<>>
    /\ calls = <<>>
    /\ returned = NoReturn

\* the API calls of one DeleteTargets that did not answer "ok"
TeardownFaults(listFails, outcomes) ==
    (IF listFails THEN {"ListClusterRoles"} ELSE {})
        \cup {"DeleteClusterRole/" \o name : name \in {n \in DOMAIN outcomes :
                                                           outcomes[n] = "refused"}}
        \cup {"NotFoundClusterRole/" \o name : name \in {n \in DOMAIN outcomes :
                                                             outcomes[n] = "notfound"}}

\* one call of DeleteTargets
DeleteTargetsDynamicClusterRole ==
    /\ stage = "teardown"
    /\ \E listFails \in BOOLEAN :
       \E outcomes \in [DOMAIN clusterRoles -> {"ok", "notfound", "refused"}] :
          LET Leave(teardown) ==
                  /\ clusterRoles' = teardown.clusterRoles
                  /\ calls' = teardown.calls
                  /\ returned' = [reconciler |-> "DynamicClusterRole",
                                  path       |-> "teardown",
                                  err        |-> teardown.err,
                                  syncErr    |-> FALSE,
                                  teardown   |-> IF teardown.err THEN "failed" ELSE "ok",
                                  faults     |-> TeardownFaults(listFails, outcomes)]
          IN Leave(DeleteTargetsRole(dynamicClusterRole, clusterRoles, listFails,
                                     outcomes))
    /\ stage' = "torn"
    /\ UNCHANGED <<allow, deny, lister, allowMap, denyMap, result, rangeStart, discovery,
                   inventory>>
    /\ UNCHANGED <<dynamicClusterRole, dynamicRoleBinding, clusterRoleBindings,
                   roleBindings>>

NextTeardown == DeleteTargetsDynamicClusterRole

SpecTeardown == InitTeardown /\ [][NextTeardown]_vars

(***************************************************************************)
(* Properties of the reconcilers                                           *)
(***************************************************************************)
\* the CR whose reconcile `returned` describes
Source ==
    IF returned.reconciler = "DynamicClusterRole" THEN dynamicClusterRole
    ELSE dynamicRoleBinding

\* the four ownership annotations of an object name the CR of that kind
OwnedBy(kind, annotations) ==
    /\ {"kuberbac.prosimcorp.com/owner-apiversion", "kuberbac.prosimcorp.com/owner-kind",
        "kuberbac.prosimcorp.com/owner-name", "kuberbac.prosimcorp.com/owner-namespace"}
           \subseteq DOMAIN annotations
    /\ annotations["kuberbac.prosimcorp.com/owner-apiversion"]
           = "kuberbac.prosimcorp.com/v1alpha1"
    /\ annotations["kuberbac.prosimcorp.com/owner-kind"] = kind
    /\ annotations["kuberbac.prosimcorp.com/owner-name"] = "source"
    /\ annotations["kuberbac.prosimcorp.com/owner-namespace"] = "default"

\* C4: every cluster role, cluster role binding and role binding a
\* reconcile writes carries the four ownership annotations, and their values
\* are the apiVersion, kind, name and namespace of the source CR.
C4_WritesCarryOwnership ==
    \A i \in DOMAIN calls :
        calls[i].verb = "Update" =>
            /\ Source # Absent
            /\ LET annotations == calls[i].object.Annotations
               IN /\ {"kuberbac.prosimcorp.com/owner-apiversion",
                      "kuberbac.prosimcorp.com/owner-kind",
                      "kuberbac.prosimcorp.com/owner-name",
                      "kuberbac.prosimcorp.com/owner-namespace"}
                         \subseteq DOMAIN annotations
                  /\ annotations["kuberbac.prosimcorp.com/owner-apiversion"]
                         = Source.APIVersion
                  /\ annotations["kuberbac.prosimcorp.com/owner-kind"] = Source.Kind
                  /\ annotations["kuberbac.prosimcorp.com/owner-name"] = Source.Name
                  /\ annotations["kuberbac.prosimcorp.com/owner-namespace"]
                         = Source.Namespace

\* a role binding written under a spec whose target annotations try to set
\* owner-name themselves
C4_Witness ==
    /\ returned.reconciler = "DynamicRoleBinding"
    /\ returned.path = "sync"
    /\ "kuberbac.prosimcorp.com/owner-name" \in DOMAIN dynamicRoleBinding.Spec.Targets.Annotations
    /\ \E i \in DOMAIN calls :
          /\ calls[i].verb = "Update"
          /\ calls[i].kind = "RoleBinding"
          /\ calls[i].ok
          /\ <<calls[i].namespace, calls[i].name>> \in DOMAIN roleBindings
          /\ OwnedBy("DynamicRoleBinding",
                     roleBindings[<<calls[i].namespace, calls[i].name>>].Annotations)

\* the DynamicRoleBinding is live, asks for a cluster-wide binding, and a
\* cluster role binding of that name exists that another owner made
ForeignClusterRoleBinding ==
    /\ dynamicRoleBinding # Absent
    /\ ~dynamicRoleBinding.DeletionTimestamp
    /\ dynamicRoleBinding.Spec.Targets.ClusterScoped
    /\ dynamicRoleBinding.Spec.Targets.Name \in DOMAIN clusterRoleBindings
    /\ ~OwnedBy("DynamicRoleBinding",
                clusterRoleBindings[dynamicRoleBinding.Spec.Targets.Name].Annotations)

\* the spec passes the checks and lookups that precede the bindings
SubjectsExpand(resource) ==
    /\ ParseDuration(resource.Spec.Synchronization.Time)
    /\ LET sync == SyncTargetBinding(
                       [resource EXCEPT !.Spec.Targets.ClusterScoped = FALSE,
                                        !.Spec.Targets.NamespaceSelector =
                                            ZeroNamespaceSelector],
                       <<>>, <<>>, {})
       IN ~sync.err /\ ~sync.panic

\* C5: with clusterScoped true and a cluster role binding of the target name
\* that lacks this CR's ownership annotations, a reconcile writes nothing,
\* whichever API call fails, and when none fails and the subjects expand it
\* returns no error and sets the success condition.
C5_ForeignClusterRoleBindingKept ==
    ForeignClusterRoleBinding =>
        \A faults \in Faults :
            LET outcome == ReconcileBinding(dynamicRoleBinding, clusterRoleBindings,
                                            roleBindings, faults)
            IN /\ outcome.calls = <<>>
               /\ outcome.clusterRoleBindings = clusterRoleBindings
               /\ outcome.roleBindings = roleBindings
               /\ (faults = {} /\ SubjectsExpand(dynamicRoleBinding)) =>
                     /\ outcome.returned.path = "sync"
                     /\ ~outcome.returned.err
                     /\ ~outcome.returned.syncErr
                     /\ outcome.resource.Status.Conditions[1].Reason
                            = "ConditionReasonTargetSynced"

\* a reconcile has just met the foreign cluster role binding and left it
C5_Witness ==
    /\ ForeignClusterRoleBinding
    /\ returned.reconciler = "DynamicRoleBinding"
    /\ returned.path = "sync"
    /\ ~returned.err
    /\ ~returned.syncErr
    /\ calls = <<>>
    /\ clusterRoleBindings["binding"] = Foreign("", "binding")

\* the names of the namespaces a selector matches; all of them when it is empty
MatchedNamespaces(selector) ==
    IF selector = ZeroNamespaceSelector
    THEN {NamespaceList[i].Name : i \in DOMAIN NamespaceList}
    ELSE {NamespaceList[i].Name : i \in
             {j \in DOMAIN NamespaceList :
                 \/ /\ selector.MatchLabels # <<>>
                    /\ IsSubset(selector.MatchLabels, NamespaceList[j].Labels)
                 \/ /\ selector.MatchList # <<>>
                    /\ NamespaceList[j].Name \in Range(selector.MatchList)
                 \/ /\ selector.MatchRegex.Expression # ""
                    /\ MatchString(selector.MatchRegex.Expression, NamespaceList[j].Name)
                           # selector.MatchRegex.Negative}}

\* the last reconcile was a DynamicRoleBinding's and got as far as its role
\* bindings (an error before them leaves no call behind)
ReachedRoleBindings ==
    /\ returned.reconciler = "DynamicRoleBinding"
    /\ returned.path = "sync"
    /\ ~dynamicRoleBinding.Spec.Targets.ClusterScoped
    /\ ~(returned.syncErr /\ calls = <<>>)

\* C6: with clusterScoped false, a reconcile issues a delete for every role
\* binding that carries its ownership annotations in a namespace outside the
\* target set (none is left unless its delete failed), deletes nothing that
\* lacks the annotations or lives inside the target set, and issues its
\* deletes after its upserts.
C6_OrphansReaped ==
    ReachedRoleBindings =>
        LET targeted == MatchedNamespaces(dynamicRoleBinding.Spec.Targets.NamespaceSelector)
        IN /\ \A key \in DOMAIN roleBindings :
                 (OwnedBy("DynamicRoleBinding", roleBindings[key].Annotations)
                  /\ key[1] \notin targeted) =>
                     \E i \in DOMAIN calls :
                         /\ calls[i].verb = "Delete"
                         /\ <<calls[i].namespace, calls[i].name>> = key
                         /\ ~calls[i].ok
           /\ \A i \in DOMAIN calls :
                 calls[i].verb = "Delete" =>
                     /\ calls[i].kind = "RoleBinding"
                     /\ OwnedBy("DynamicRoleBinding", calls[i].object.Annotations)
                     /\ calls[i].namespace \notin targeted
                     /\ calls[i].ok =>
                            <<calls[i].namespace, calls[i].name>> \notin DOMAIN roleBindings
                     /\ \A j \in DOMAIN calls : calls[j].verb = "Update" => j < i

\* an upsert in the targeted namespace, then the delete of the owned role
\* binding of the namespace that is no longer targeted
C6_Witness ==
    /\ ReachedRoleBindings
    /\ ~returned.syncErr
    /\ \E i, j \in DOMAIN calls :
          /\ i < j
          /\ calls[i].verb = "Update" /\ calls[i].ok
          /\ calls[j].verb = "Delete" /\ calls[j].ok
          /\ calls[j].namespace = "ns2"
          /\ <<"ns2", "binding">> \notin DOMAIN roleBindings
          /\ <<"ns1", "binding">> \in DOMAIN roleBindings

\* the subjects the spec of the DynamicRoleBinding expands to
ExpandedSubjects ==
    LET subject == dynamicRoleBinding.Spec.Source.Subject
    IN ExpandSubjects(subject,
           FilterNamespaceListBySelector(NamespaceList,
                                         subject.NamespaceSelector).namespaces,
           {}).subjects

\* C7 (as claimed): after a reconcile with clusterScoped false that returned
\* no error and none of whose API calls failed, every namespace the target
\* selector matches holds a role binding of the target name that references
\* the cluster role and carries exactly the expanded subjects.  A namespace
\* where another owner's role binding holds the name is left out of the
\* statement.
C7_TargetNamespacesBound ==
    (/\ returned.reconciler = "DynamicRoleBinding"
     /\ returned.path = "sync"
     /\ ~returned.err
     /\ ~returned.syncErr
     /\ \A i \in DOMAIN calls : calls[i].ok
     /\ ~dynamicRoleBinding.Spec.Targets.ClusterScoped) =>
        \A namespace \in MatchedNamespaces(dynamicRoleBinding.Spec.Targets.NamespaceSelector) :
            LET key == <<namespace, dynamicRoleBinding.Spec.Targets.Name>>
            IN /\ key \in DOMAIN roleBindings
               /\ OwnedBy("DynamicRoleBinding", roleBindings[key].Annotations) =>
                     /\ roleBindings[key].RoleRef.Name
                            = dynamicRoleBinding.Spec.Source.ClusterRole
                     /\ roleBindings[key].Subjects = ExpandedSubjects

\* C8 (as claimed): every ServiceAccount subject of a binding the reconcile
\* writes lives in a namespace that source.subject.namespaceSelector
\* matches; all namespaces are admitted only when the selector is empty.
C8_SubjectNamespacesMatched ==
    (/\ returned.reconciler = "DynamicRoleBinding"
     /\ returned.path = "sync") =>
        \A i \in DOMAIN calls :
            calls[i].verb = "Update" =>
                \A j \in DOMAIN calls[i].object.Subjects :
                    calls[i].object.Subjects[j].Kind = "ServiceAccount" =>
                        calls[i].object.Subjects[j].Namespace \in
                            MatchedNamespaces(
                                dynamicRoleBinding.Spec.Source.Subject.NamespaceSelector)

\* C9 (as claimed): once the reconcile of a DynamicClusterRole under
\* deletion has removed the finalizer, no cluster role carrying the CR's
\* ownership annotations is left.
C9_RoleTeardownBeforeFinalizer ==
    (/\ returned.reconciler = "DynamicClusterRole"
     /\ returned.path = "deleting"
     /\ dynamicClusterRole = Absent) =>
        \A name \in DOMAIN clusterRoles :
            ~OwnedBy("DynamicClusterRole", clusterRoles[name].Annotations)

\* C10: the reconcile of a DynamicRoleBinding under deletion removes the
\* finalizer only when the teardown returned no error; when the teardown
\* fails (a delete or a list fails) the reconcile returns the error and the
\* CR keeps its finalizer.
C10_FinalizerAfterTeardown ==
    (/\ returned.reconciler = "DynamicRoleBinding"
     /\ returned.path = "deleting") =>
        LET failed == \/ returned.teardown = "failed"
                      \/ \E i \in DOMAIN calls : ~calls[i].ok
        IN /\ failed =>
                 /\ returned.err
                 /\ dynamicRoleBinding # Absent
                 /\ resourceFinalizer \in dynamicRoleBinding.Finalizers
           /\ (\/ dynamicRoleBinding = Absent
               \/ resourceFinalizer \notin dynamicRoleBinding.Finalizers) =>
                 /\ returned.teardown = "ok"
                 /\ \A i \in DOMAIN calls : calls[i].ok

\* a delete of the teardown has failed: the error is returned, the finalizer
\* and the role binding are still there
C10_Witness ==
    /\ returned.reconciler = "DynamicRoleBinding"
    /\ returned.path = "deleting"
    /\ returned.teardown = "failed"
    /\ returned.err
    /\ \E i \in DOMAIN calls :
          /\ calls[i].verb = "Delete"
          /\ ~calls[i].ok
          /\ <<calls[i].namespace, calls[i].name>> \in DOMAIN roleBindings
    /\ dynamicRoleBinding.DeletionTimestamp
    /\ resourceFinalizer \in dynamicRoleBinding.Finalizers

\* the rules the compiler gives the spec of the DynamicClusterRole when
\* every lookup succeeds
CompiledRules ==
    Range(MapValues(Compile(dynamicClusterRole.Spec.Allow, dynamicClusterRole.Spec.Deny,
                            [err |-> FALSE, items |-> Items(InstanceNames)]).result.rules))

\* the inventory serves the rule's resource in the rule's group, namespaced
NamespacedInInventory(rule) ==
    /\ ~IsUrlRule(rule)
    /\ \E i \in DOMAIN ServerGroupsAndResources :
          LET list  == ServerGroupsAndResources[i]
              parts == Split(list.GroupVersion, "/")
              group == IF Len(parts) = 2 THEN parts[1] ELSE ""
          IN /\ group = rule.APIGroups[1]
             /\ \E j \in DOMAIN list.APIResources :
                   /\ list.APIResources[j].Name = rule.Resources[1]
                   /\ list.APIResources[j].Namespaced

\* the last reconcile was a DynamicClusterRole's, it got to the synthesis and
\* none of the API calls of the synthesis failed
RoleSynthesised ==
    /\ returned.reconciler = "DynamicClusterRole"
    /\ \/ returned.path = "panic"
       \/ returned.path = "sync" /\ ~returned.syncErr

\* C11 (as claimed): with separateScopes the synthesis writes two cluster
\* roles, <name>-cluster and <name>-namespace; a compiled resource rule is in
\* the second when the inventory has its resource namespaced and in the first
\* otherwise, never in both.  Without separateScopes it writes one cluster
\* role <name> with all the compiled rules.
C11_ScopesSplit ==
    RoleSynthesised =>
        LET target == dynamicClusterRole.Spec.Target
            resourceRules == {rule \in CompiledRules : ~IsUrlRule(rule)}
        IN IF target.SeparateScopes
           THEN /\ Len(calls) = 2
                /\ calls[1].verb = "Update" /\ calls[1].kind = "ClusterRole"
                /\ calls[1].name = target.Name \o "-cluster"
                /\ calls[2].verb = "Update" /\ calls[2].kind = "ClusterRole"
                /\ calls[2].name = target.Name \o "-namespace"
                /\ \A rule \in resourceRules :
                      IF NamespacedInInventory(rule)
                      THEN /\ rule \in Range(calls[2].object.Rules)
                           /\ rule \notin Range(calls[1].object.Rules)
                      ELSE /\ rule \in Range(calls[1].object.Rules)
                           /\ rule \notin Range(calls[2].object.Rules)
                /\ Range(calls[1].object.Rules) \cup Range(calls[2].object.Rules)
                       \subseteq CompiledRules
                /\ Len(calls[1].object.Rules) + Len(calls[2].object.Rules)
                       = Cardinality(resourceRules)
           ELSE /\ Len(calls) = 1
                /\ calls[1].verb = "Update" /\ calls[1].kind = "ClusterRole"
                /\ calls[1].name = target.Name
                /\ Range(calls[1].object.Rules) = CompiledRules
                /\ Len(calls[1].object.Rules) = Cardinality(CompiledRules)

\* C12 (as claimed): when the compiled rules hold a nonResourceURL rule and
\* separateScopes is set, the splitter completes, and every such rule is
\* written to <name>-cluster and none to <name>-namespace.
C12_UrlRulesClusterScoped ==
    (/\ RoleSynthesised
     /\ dynamicClusterRole.Spec.Target.SeparateScopes
     /\ \E rule \in CompiledRules : IsUrlRule(rule)) =>
        /\ returned.path = "sync"
        /\ Len(calls) = 2
        /\ \A rule \in CompiledRules :
              IsUrlRule(rule) =>
                  /\ rule \in Range(calls[1].object.Rules)
                  /\ rule \notin Range(calls[2].object.Rules)

(***************************************************************************)
(* Further properties of the compiler                                      *)
(***************************************************************************)
\* the (group, resource, resourceName, verb) and (url, verb) tuples a rule
\* list spells out, its invalid rules left aside
InputTuples(policyRules) ==
    UNION { LET rule == policyRules[i]
            IN IF RuleIgnored(rule) THEN {}
               ELSE IF IsUrlRule(rule)
               THEN {[url |-> u, verb |-> v] :
                        u \in Range(rule.NonResourceURLs), v \in Range(rule.Verbs)}
               ELSE {[group |-> t[1], resource |-> t[2], name |-> t[3], verb |-> t[4]] :
                        t \in Range(rule.APIGroups) \X Range(rule.Resources)
                              \X (IF Len(rule.ResourceNames) = 0 THEN {""}
                                  ELSE Range(rule.ResourceNames))
                              \X Range(rule.Verbs)}
          : i \in DOMAIN policyRules }

\* no rule of the list uses '*' as a group, a resource or a verb
NoWildcard(policyRules) ==
    \A i \in DOMAIN policyRules :
        /\ ~Contains(policyRules[i].APIGroups, "*")
        /\ ~Contains(policyRules[i].Resources, "*")
        /\ ~Contains(policyRules[i].Verbs, "*")

\* C13 (as claimed): with no '*' in spec.allow and an empty spec.deny the
\* output is the key-merged input: one rule under each key (group, resource,
\* resourceName) or URL the input names, whose verbs are the union of the
\* verbs the input gives that key.
C13_ConcreteAllowIsKeyMerged ==
    (Compiled /\ deny = <<>> /\ NoWildcard(allow)) =>
        /\ Tuples(result.rules) = InputTuples(allow)
        /\ \A k \in DOMAIN result.rules : MapKey(result.rules[k]) = k

\* the deny key equals the allow key, or is a prefix-deny of it: the broad
\* key of its resource, or a URL ending in '*' whose front the allow starts with
DenyTouches(denyKey, allowKey) ==
    \/ denyKey = allowKey
    \/ IF HasPrefix(denyKey, "nonresourceurl")
       THEN HasSuffix(denyKey, "*") /\ HasPrefix(allowKey, TrimSuffix(denyKey, "*"))
       ELSE Split(denyKey, "#")[3] = "" /\ HasPrefix(allowKey, denyKey)

\* the deny key names an instance of the resource the allow key grants broadly
DenyNamesInstanceOf(denyKey, allowKey) ==
    /\ ~HasPrefix(denyKey, "nonresourceurl")
    /\ Split(denyKey, "#")[3] # ""
    /\ allowKey = Join(SubSeq(Split(denyKey, "#"), 1, 2), "#") \o "#"

\* the output has the keys of the allow map and its verbs under each key
OutputIsAllowMap ==
    /\ DOMAIN result.rules = DOMAIN allowMap
    /\ \A k \in DOMAIN allowMap :
          Range(result.rules[k].Verbs) = Range(allowMap[k].Verbs)

\* C14 (as claimed): when no deny key equals an allow key or is a
\* prefix-deny of one, the output is the compiled allow map.
C14_AsClaimed ==
    (/\ Compiled
     /\ \A d \in DOMAIN denyMap : \A a \in DOMAIN allowMap : ~DenyTouches(d, a)) =>
        OutputIsAllowMap

\* C14 (amended): when no deny key equals an allow key, is a prefix-deny of
\* one, or names an instance of a resource that an allow key grants broadly,
\* the output is the compiled allow map: same keys, same verbs per key.
C14_DisjointDenyKeepsAllow ==
    (/\ Compiled
     /\ \A d \in DOMAIN denyMap : \A a \in DOMAIN allowMap :
           ~DenyTouches(d, a) /\ ~DenyNamesInstanceOf(d, a)) =>
        OutputIsAllowMap

\* a deny of list on pods beside allows of list on URLs only: nothing is taken
C14_Witness ==
    /\ Compiled
    /\ "#pods#" \in DOMAIN denyMap
    /\ "list" \in Range(denyMap["#pods#"].Verbs)
    /\ "nonresourceurl#/healthz" \in DOMAIN allowMap
    /\ \A d \in DOMAIN denyMap : \A a \in DOMAIN allowMap :
          ~DenyTouches(d, a) /\ ~DenyNamesInstanceOf(d, a)
    /\ "list" \in Range(result.rules["nonresourceurl#/healthz"].Verbs)
    /\ OutputIsAllowMap

\* the verbs of the rules ExpandPolicyRules makes of a list, each with the
\* input rule it came from
ExpandedVerbs(policyRules) ==
    LET expanded == ExpandPolicyRules(policyRules)
    IN {[input |-> policyRules[expanded[j].Verbs.arr],
         verbs |-> View(VerbArrays(policyRules), expanded[j].Verbs)] :
            j \in DOMAIN expanded}

\* C15: the expansion of a rule whose verbs contain '*' carries exactly the
\* verbs create, delete, deletecollection, get, list, patch, update, watch;
\* the expansion of any other rule carries the verbs of the rule, unchanged.
C15_VerbsCanonical ==
    stage = "done" =>
        \A policyRules \in {allow, deny} :
            /\ \A i \in DOMAIN policyRules :
                  ~RuleIgnored(policyRules[i]) =>
                      \E e \in ExpandedVerbs(policyRules) : e.input = policyRules[i]
            /\ \A e \in ExpandedVerbs(policyRules) :
                  IF Contains(e.input.Verbs, "*")
                  THEN e.verbs = <<"create", "delete", "deletecollection", "get", "list",
                                   "patch", "update", "watch">>
                  ELSE e.verbs = e.input.Verbs

\* a list with a rule of verbs ['*'] and a rule of plain verbs has been
\* compiled, and the key of the first holds the eight verbs
C15_Witness ==
    /\ stage = "done"
    /\ \E i, j \in DOMAIN allow :
          /\ Contains(allow[i].Verbs, "*")
          /\ ~Contains(allow[j].Verbs, "*")
    /\ "#pods/log#" \in DOMAIN allowMap
    /\ Range(allowMap["#pods/log#"].Verbs)
           = {"create", "delete", "deletecollection", "get", "list", "patch", "update",
              "watch"}

\* the verbs the URL denies take from an allowed URL: those of the deny of
\* that very URL and of every deny ending in '*' whose front the URL starts with
UrlDeniedVerbs(url) ==
    UNION { Range(denyMap[d].Verbs) :
              d \in {x \in DOMAIN denyMap :
                        /\ IsUrlRule(denyMap[x])
                        /\ LET denyUrl == denyMap[x].NonResourceURLs[1]
                           IN \/ denyUrl = url
                              \/ /\ HasSuffix(denyUrl, "*")
                                 /\ HasPrefix(url, TrimSuffix(denyUrl, "*"))} }

\* C16: a URL deny ending in '*' takes its verbs from every allowed URL that
\* starts with the part before the '*' and from no other: each allowed URL
\* is left with its verbs minus those of the denies that cover it (and is
\* absent when none is left), so an allowed URL that is broader than the
\* deny's front keeps all its verbs.
C16_UrlPrefixDeny ==
    Compiled =>
        \A a \in DOMAIN allowMap :
            IsUrlRule(allowMap[a]) =>
                LET left == Range(allowMap[a].Verbs)
                            \ UrlDeniedVerbs(allowMap[a].NonResourceURLs[1])
                IN IF left = {} THEN a \notin DOMAIN result.rules
                   ELSE /\ a \in DOMAIN result.rules
                        /\ Range(result.rules[a].Verbs) = left
                        /\ result.rules[a].NonResourceURLs = allowMap[a].NonResourceURLs

\* deny /api/secrets* of get against the allows /api/*, /api/secrets/x and
\* /healthz of get and list: only /api/secrets/x loses get
C16_Witness ==
    /\ Compiled
    /\ "nonresourceurl#/api/secrets*" \in DOMAIN denyMap
    /\ Range(denyMap["nonresourceurl#/api/secrets*"].Verbs) = {"get"}
    /\ {"nonresourceurl#/api/*", "nonresourceurl#/api/secrets/x",
        "nonresourceurl#/healthz"} \subseteq DOMAIN allowMap
    /\ Range(allowMap["nonresourceurl#/api/secrets/x"].Verbs) = {"get", "list"}
    /\ Range(result.rules["nonresourceurl#/api/secrets/x"].Verbs) = {"list"}
    /\ Range(result.rules["nonresourceurl#/api/*"].Verbs) = {"get", "list"}
    /\ Range(result.rules["nonresourceurl#/healthz"].Verbs) = {"get", "list"}

\* the keys the allows have when the subtraction starts: those of the allow
\* map, and one per live instance of a broad allow a deny names an instance of
SubtractedKeys ==
    DOMAIN allowMap
    \cup UNION { {ResourceKey(t.group, t.resource, n) : n \in Live(t.group, t.resource)} :
                   t \in {u \in ResourceTuples(allowMap) :
                             u.name = "" /\ NameExpanded(u.group, u.resource)} }

\* every verb of the allow under the key is taken by a deny
AllVerbsDenied(key) ==
    \A t \in Tuples([k \in {key} |-> allowMap[key]]) : Denied(t)

\* C17: no rule of the output has an empty verb list; an allow all of whose
\* verbs the denies take is absent from the output, and a deny adds no key:
\* every key of the output is one the allows had before the subtraction.
C17_NoEmptyVerbs ==
    Compiled =>
        /\ \A k \in DOMAIN result.rules : Len(result.rules[k].Verbs) > 0
        /\ \A k \in DOMAIN allowMap : AllVerbsDenied(k) => k \notin DOMAIN result.rules
        /\ DOMAIN result.rules \subseteq SubtractedKeys

\* the exact deny of /metrics meets no allow and leaves no entry, while the
\* allows beside it are in the output
C17_Witness ==
    /\ Compiled
    /\ "nonresourceurl#/metrics" \in DOMAIN denyMap
    /\ "nonresourceurl#/metrics" \notin DOMAIN allowMap
    /\ "nonresourceurl#/metrics" \notin DOMAIN result.rules
    /\ "nonresourceurl#/healthz" \in DOMAIN result.rules
    /\ \A k \in DOMAIN result.rules : Len(result.rules[k].Verbs) > 0

(***************************************************************************)
(* Further properties of the binding reconciler                            *)
(***************************************************************************)
\* the last reconcile was a DynamicRoleBinding's and called SyncTarget
BindingSynthesised ==
    /\ returned.reconciler = "DynamicRoleBinding"
    /\ returned.path = "sync"

\* the synthesis returned an error and issued no write and no delete
FailedBeforeAnyWrite == returned.syncErr /\ calls = <<>>

\* C18: for a subject of kind User or Group, a populated namespaceSelector,
\* metaSelector or nameSelector.matchRegex makes the synthesis return an
\* error without a write or delete; otherwise every binding it writes lists
\* one subject per nameSelector.matchList entry, in that order, with the
\* kind and the API group of the spec.
C18_UserGroupSelectors ==
    LET subject == dynamicRoleBinding.Spec.Source.Subject
    IN (BindingSynthesised /\ subject.Kind \in {"User", "Group"}) =>
          IF \/ subject.NamespaceSelector.MatchLabels # <<>>
             \/ subject.NamespaceSelector.MatchList # <<>>
             \/ subject.NamespaceSelector.MatchRegex.Expression # ""
             \/ subject.MetaSelector.MatchLabels # <<>>
             \/ subject.MetaSelector.MatchAnnotations # <<>>
             \/ subject.NameSelector.MatchRegex.Expression # ""
          THEN FailedBeforeAnyWrite
          ELSE \A i \in DOMAIN calls :
                  calls[i].verb = "Update" =>
                      calls[i].object.Subjects =
                          [j \in DOMAIN subject.NameSelector.MatchList |->
                              [Kind      |-> subject.Kind,
                               APIGroup  |-> subject.ApiGroup,
                               Name      |-> subject.NameSelector.MatchList[j],
                               Namespace |-> ""]]

\* a user named by list and by regular expression has been refused while the
\* role binding of an earlier spec is still in place
C18_Witness ==
    /\ BindingSynthesised
    /\ dynamicRoleBinding.Spec.Source.Subject.Kind = "User"
    /\ dynamicRoleBinding.Spec.Source.Subject.NameSelector.MatchRegex.Expression # ""
    /\ FailedBeforeAnyWrite
    /\ \E key \in DOMAIN roleBindings :
          OwnedBy("DynamicRoleBinding", roleBindings[key].Annotations)

\* two or more branches of a selector are populated
TwoBranches(branches) == Cardinality({i \in DOMAIN branches : branches[i]}) >= 2

\* the selectors of a ServiceAccount subject, or the target selector of a
\* namespaced binding, break the one-branch rule
SelectorsOverfilled(spec) ==
    LET subject == spec.Source.Subject
        target  == spec.Targets.NamespaceSelector
    IN \/ TwoBranches(<< subject.NameSelector.MatchList # <<>>,
                         subject.NameSelector.MatchRegex.Expression # "" >>)
       \/ TwoBranches(<< subject.MetaSelector.MatchLabels # <<>>,
                         subject.MetaSelector.MatchAnnotations # <<>> >>)
       \/ TwoBranches(<< subject.NamespaceSelector.MatchLabels # <<>>,
                         subject.NamespaceSelector.MatchList # <<>>,
                         subject.NamespaceSelector.MatchRegex.Expression # "" >>)
       \/ /\ ~spec.Targets.ClusterScoped
          /\ TwoBranches(<< target.MatchLabels # <<>>, target.MatchList # <<>>,
                            target.MatchRegex.Expression # "" >>)
       \/ /\ subject.NameSelector # ZeroNameSelector
          /\ subject.MetaSelector # ZeroMetaSelector

\* the last reconcile was a DynamicRoleBinding's and entered SyncTarget
BindingSynthesisEntered ==
    /\ returned.reconciler = "DynamicRoleBinding"
    /\ returned.path \in {"sync", "panic"}

\* C19 (as claimed): for a ServiceAccount subject, two populated branches of
\* the source nameSelector, metaSelector or namespaceSelector, or of the
\* target namespaceSelector when clusterScoped is false, or a nameSelector
\* together with a metaSelector, make the synthesis return an error without
\* a write or delete.
C19_OneBranchPerSelector ==
    (/\ BindingSynthesisEntered
     /\ dynamicRoleBinding.Spec.Source.Subject.Kind = "ServiceAccount"
     /\ SelectorsOverfilled(dynamicRoleBinding.Spec)) =>
        (returned.path = "sync" /\ FailedBeforeAnyWrite)

\* C20 (as claimed): with clusterScoped false and an empty
\* targets.namespaceSelector no namespace is targeted: the reconcile issues
\* no update of a role binding.
C20_EmptyTargetSelectorBindsNothing ==
    (/\ BindingSynthesised
     /\ ~dynamicRoleBinding.Spec.Targets.ClusterScoped
     /\ dynamicRoleBinding.Spec.Targets.NamespaceSelector = ZeroNamespaceSelector) =>
        \A i \in DOMAIN calls :
            ~(calls[i].verb = "Update" /\ calls[i].kind = "RoleBinding")

(***************************************************************************)
(* Errors and conditions of the two Reconcile handlers                     *)
(***************************************************************************)
\* the last reconcile called SyncTarget and SyncTarget returned
Synthesised == returned.reconciler # "" /\ returned.path = "sync"

\* the synthesis failed on a call to the API server: the discovery of the
\* role's SyncTarget, or a write or delete that was issued and refused
ApiCallFailed ==
    /\ Synthesised
    /\ returned.syncErr
    /\ \/ returned.reconciler = "DynamicClusterRole" /\ "Discovery" \in returned.faults
       \/ \E i \in DOMAIN calls : ~calls[i].ok

\* C21 (as claimed): when the synthesis fails on a discovery or cluster API
\* call, Reconcile returns a non-nil error.
C21_SyncFailureReturned == ApiCallFailed => returned.err

\* the ResourceSynced condition the stored source CR of the last reconcile
\* carries, or <<>>
ResourceSynced ==
    IF Source = Absent THEN <<>>
    ELSE SelectSeq(Source.Status.Conditions, LAMBDA c : c.Type = "ResourceSynced")

\* C22 (as claimed): a validation error in a DynamicRoleBinding sets the
\* ResourceSynced condition to status False with reason ValidationFailed,
\* writes no target, and the reconcile returns without error.
C22_ValidationFailedCondition ==
    (/\ BindingSynthesised
     /\ returned.faults = {}
     /\ dynamicRoleBinding.Spec \in InvalidBindingSpecs) =>
        /\ Len(ResourceSynced) = 1
        /\ ResourceSynced[1].Status = "False"
        /\ ResourceSynced[1].Reason = "ValidationFailed"
        /\ calls = <<>>
        /\ ~returned.err

\* the last reconcile entered SyncTarget, and its status update was not refused
SynthesisEntered ==
    /\ returned.reconciler # ""
    /\ returned.path \in {"sync", "panic"}
    /\ "UpdateStatus" \notin returned.faults

\* C23 (as claimed): every reconcile of a non-deleted source CR that reaches
\* the synthesis step leaves the ResourceSynced condition with status True,
\* reason TargetSynced when the synthesis succeeded and reason
\* KubernetesApiCallError when it failed.
C23_ConditionSetOnBothOutcomes ==
    SynthesisEntered =>
        /\ Len(ResourceSynced) = 1
        /\ ResourceSynced[1].Status = "True"
        /\ ResourceSynced[1].Reason =
               IF returned.path = "sync" /\ returned.syncErr
               THEN "ConditionReasonKubernetesApiCallErrorType"
               ELSE "ConditionReasonTargetSynced"

\* the last reconcile found the finalizer on a source CR under deletion,
\* tried to remove it after a teardown that did not fail, and the CR still
\* carries it: the update of the CR was refused
FinalizerRemovalRefused ==
    /\ returned.reconciler # ""
    /\ returned.path = "deleting"
    /\ returned.teardown # "failed"
    /\ Source # Absent
    /\ resourceFinalizer \in Source.Finalizers

\* C24 (as claimed): if the update of the source CR that adds or removes the
\* finalizer fails, Reconcile returns that error, on the add path and on the
\* remove path of both controllers.
C24_FinalizerUpdateErrorReturned ==
    /\ (returned.reconciler # "" /\ returned.path = "finalizer") => returned.err
    /\ FinalizerRemovalRefused => returned.err

\* the deletes of role bindings the last reconcile issued during reaping
ReapingDeletes ==
    {i \in DOMAIN calls : calls[i].verb = "Delete" /\ calls[i].kind = "RoleBinding"}

\* C25 (as claimed): during orphan reaping of role bindings every orphan is
\* attempted, and the synthesis returns a non-nil error whenever one of the
\* deletes failed, also when a later delete succeeded.
C25_ReapingErrorsJoined ==
    (BindingSynthesised /\ \E i \in ReapingDeletes : ~calls[i].ok) =>
        returned.syncErr

(***************************************************************************)
(* Properties of DeleteTargets of the DynamicClusterRole                   *)
(***************************************************************************)
\* the cluster roles that carry the four ownership annotations of the source
OwnedClusterRoles(roles) ==
    {name \in DOMAIN roles : OwnedBy("DynamicClusterRole", roles[name].Annotations)}

\* C26: DeleteTargets of a DynamicClusterRole whose list call succeeds
\* issues one delete for every cluster role that carries the four ownership
\* annotations with the source's values and for no other; a NotFound counts
\* as success, a refused delete stops no other delete, and the call returns
\* an error exactly when some delete was refused.
C26_TeardownDeletesOwned ==
    [][(returned'.path = "teardown" /\ "ListClusterRoles" \notin returned'.faults) =>
          LET owned   == OwnedClusterRoles(clusterRoles)
              refused == {name \in owned :
                             ("DeleteClusterRole/" \o name) \in returned'.faults}
          IN /\ Len(calls') = Cardinality(owned)
             /\ {calls'[i].name : i \in DOMAIN calls'} = owned
             /\ \A i \in DOMAIN calls' : calls'[i].verb = "Delete"
             /\ returned'.err <=> (refused # {})
             /\ DOMAIN clusterRoles' = (DOMAIN clusterRoles \ owned) \cup refused
             /\ \A name \in DOMAIN clusterRoles' :
                   clusterRoles'[name] = clusterRoles[name]]_vars

\* a teardown in which the first delete was refused, a later one answered
\* NotFound or ok, and a cluster role of another owner was left alone
C26_Witness ==
    /\ returned.path = "teardown"
    /\ returned.err
    /\ Len(calls) >= 2
    /\ ~calls[1].ok
    /\ ("DeleteClusterRole/" \o calls[1].name) \in returned.faults
    /\ ("NotFoundClusterRole/" \o calls[2].name) \in returned.faults
    /\ \E name \in DOMAIN clusterRoles :
          ~OwnedBy("DynamicClusterRole", clusterRoles[name].Annotations)

\* C27 (as claimed): the role and binding SyncTarget functions leave the
\* source CR object they receive unchanged: after the call its spec,
\* spec.targets.annotations included, equals its value before the call.
C27_SourceUnchanged == Synthesised => returned.spec = Source.Spec

(***************************************************************************)
(* Properties of the order in which the cluster role is written            *)
(***************************************************************************)
\* a reconcile of the DynamicClusterRole in which no call failed and
\* SyncTarget wrote its cluster roles
RoleWritten(r) ==
    /\ r.reconciler = "DynamicClusterRole"
    /\ r.path = "sync"
    /\ ~r.syncErr
    /\ r.faults = {}

\* C28 (as claimed): two compilations with the same allow, deny, inventory
\* and live instances write the same cluster role, rule list and verb lists
\* in the same order, whatever the iteration order of the internal maps: a
\* reconcile that follows a reconcile of the same source CR, with nothing
\* changed in between, leaves the cluster roles as they are.
C28_SameInputsSameClusterRole ==
    [][(/\ RoleWritten(returned)
        /\ RoleWritten(returned')
        /\ dynamicClusterRole'.Spec = dynamicClusterRole.Spec)
          => clusterRoles' = clusterRoles]_vars

(***************************************************************************)
(* Properties of the inventory                                             *)
(***************************************************************************)
\* the group and the version of a group/version header
GroupVersionOf(header) ==
    LET groupVersion == Split(header, "/")
    IN IF Len(groupVersion) = 2
       THEN [group |-> groupVersion[1], version |-> groupVersion[2]]
       ELSE [group |-> "", version |-> groupVersion[1]]

Inventoried == stage = "inventoried" /\ ~discovery.err

\* C29 (as claimed): the inventory built from one discovery result lists,
\* under each API group, every resource (with subresource, kind, scope and
\* verbs) that discovery returned for that group in any of its versions, and
\* the resource list names each of them.
C29_InventoryKeepsEveryResource ==
    Inventoried =>
        /\ ~inventory.err
        /\ \A i \in DOMAIN discovery.lists :
              LET gv == GroupVersionOf(discovery.lists[i].GroupVersion)
              IN /\ gv.group \in DOMAIN inventory.ResourcesByGroup
                 /\ \A j \in DOMAIN discovery.lists[i].APIResources :
                       LET gvkr == GVKR(gv.group, gv.version,
                                        discovery.lists[i].APIResources[j])
                       IN /\ gvkr \in Range(inventory.ResourcesByGroup[gv.group])
                          /\ ResourceName(gvkr) \in Range(inventory.ResourceList)

(***************************************************************************)
(* Properties of the annotations of the bindings                           *)
(***************************************************************************)
OwnershipKeys ==
    {"kuberbac.prosimcorp.com/owner-apiversion", "kuberbac.prosimcorp.com/owner-kind",
     "kuberbac.prosimcorp.com/owner-name", "kuberbac.prosimcorp.com/owner-namespace"}

BindingWritten(call) ==
    call.verb = "Update" /\ call.kind \in {"ClusterRoleBinding", "RoleBinding"}

\* C30: the annotations of every binding written are targets.annotations of
\* the source CR merged with the four ownership annotations: a user
\* annotation under another key is kept with its value, and an ownership key
\* carries the source's value whatever targets.annotations sets it to.
C30_BindingAnnotationsMerged ==
    \A i \in DOMAIN calls :
        BindingWritten(calls[i]) =>
            /\ dynamicRoleBinding # Absent
            /\ LET user    == dynamicRoleBinding.Spec.Targets.Annotations
                   written == calls[i].object.Annotations
               IN /\ DOMAIN written = DOMAIN user \cup OwnershipKeys
                  /\ \A k \in DOMAIN user \ OwnershipKeys : written[k] = user[k]
                  /\ \A k \in OwnershipKeys :
                        written[k] = ReferenceAnnotations(dynamicRoleBinding)[k]

\* a role binding written and stored under a spec whose target annotations
\* hold a key of the user's own
C30_Witness ==
    /\ returned.reconciler = "DynamicRoleBinding"
    /\ returned.path = "sync"
    /\ DOMAIN dynamicRoleBinding.Spec.Targets.Annotations \ OwnershipKeys # {}
    /\ \E i \in DOMAIN calls :
          /\ BindingWritten(calls[i])
          /\ calls[i].ok
          /\ <<calls[i].namespace, calls[i].name>> \in DOMAIN roleBindings
          /\ "team" \in DOMAIN roleBindings[<<calls[i].namespace,
                                              calls[i].name>>].Annotations

(***************************************************************************)
(* Properties of the role bindings a binding reconcile writes              *)
(***************************************************************************)
\* the updates of role bindings the last reconcile issued
RoleBindingUpdates ==
    {i \in DOMAIN calls : calls[i].verb = "Update" /\ calls[i].kind = "RoleBinding"}

\* C31 (as claimed): if the update of the role binding of any target
\* namespace fails during a binding synthesis, SyncTarget returns a non-nil
\* error, whichever namespace failed and whether or not later updates or
\* orphan deletes succeed.
C31_RoleBindingUpdateErrorReturned ==
    (BindingSynthesised /\ \E i \in RoleBindingUpdates : ~calls[i].ok) =>
        returned.syncErr

(***************************************************************************)
(* Properties of the key-and-merge step                                    *)
(***************************************************************************)
\* the atomic rules of a rule list, each with the verb list of the rule it
\* was stretched from
AtomicRules(policyRules) ==
    LET stretched == StretchPolicyRules(ExpandPolicyRules(policyRules))
    IN [i \in DOMAIN stretched |->
           [stretched[i] EXCEPT !.Verbs = ExpandVerbs(policyRules[stretched[i].Verbs.arr])]]

NoDuplicates(list) == \A i, j \in DOMAIN list : list[i] = list[j] => i = j

\* the map has one rule under the key of every atomic rule, with a
\* duplicate-free verb list that holds the verbs of the atomic rules of that key
KeyMerged(map, policyRules) ==
    LET atomic == AtomicRules(policyRules)
    IN /\ DOMAIN map = {MapKey(atomic[i]) : i \in DOMAIN atomic}
       /\ \A key \in DOMAIN map :
             /\ NoDuplicates(map[key].Verbs)
             /\ Range(map[key].Verbs)
                    = UNION {Range(atomic[i].Verbs) :
                                i \in {x \in DOMAIN atomic : MapKey(atomic[x]) = key}}

\* C32 (as claimed): in the maps built by key-and-merge, the rule under
\* every key has a duplicate-free verb list whose set is the union of the
\* verb lists of all atomic rules that share the key, also under a key that
\* a single atomic rule with a repeated verb produced.
C32_KeyMergeUnionsVerbs ==
    stage = "done" => KeyMerged(allowMap, allow) /\ KeyMerged(denyMap, deny)

\* the last reconcile was a DynamicRoleBinding's, its synthesis returned and
\* every API call of the reconcile succeeded
BindingReconciled ==
    /\ BindingSynthesised
    /\ ~returned.err
    /\ ~returned.syncErr
    /\ returned.faults = {}

\* C33 (as claimed): a role binding named targets.name that carries the
\* source's four ownership annotations and lives in a target namespace has,
\* after every binding reconcile whose API calls succeed, the subjects, the
\* role reference and the annotations the spec now asks for, also when
\* targets.annotations was changed since the role binding was last written.
C33_OwnedRoleBindingRewritten ==
    (BindingReconciled /\ ~dynamicRoleBinding.Spec.Targets.ClusterScoped) =>
        \A namespace \in MatchedNamespaces(dynamicRoleBinding.Spec.Targets.NamespaceSelector) :
            LET key == <<namespace, dynamicRoleBinding.Spec.Targets.Name>>
            IN (/\ key \in DOMAIN roleBindings
                /\ OwnedBy("DynamicRoleBinding", roleBindings[key].Annotations)) =>
                   /\ roleBindings[key].Subjects = ExpandedSubjects
                   /\ roleBindings[key].RoleRef
                          = [APIGroup |-> "rbac.authorization.k8s.io",
                             Kind |-> "ClusterRole",
                             Name |-> dynamicRoleBinding.Spec.Source.ClusterRole]
                   /\ roleBindings[key].Annotations
                          = MapsCopy(dynamicRoleBinding.Spec.Targets.Annotations,
                                     ReferenceAnnotations(dynamicRoleBinding))

\* the bindings of the cluster that carry the source's ownership annotations
OwnedRoleBindings ==
    {key \in DOMAIN roleBindings :
        OwnedBy("DynamicRoleBinding", roleBindings[key].Annotations)}

OwnedClusterRoleBindings ==
    {name \in DOMAIN clusterRoleBindings :
        OwnedBy("DynamicRoleBinding", clusterRoleBindings[name].Annotations)}

\* C34 (as claimed): after a binding reconcile in which every API call
\* succeeds, the bindings that carry the source's ownership annotations are
\* those the spec asks for: with clusterScoped true no owned role binding is
\* left in any namespace, with clusterScoped false no owned cluster role
\* binding is left.
C34_OwnedBindingsFollowScope ==
    BindingReconciled =>
        IF dynamicRoleBinding.Spec.Targets.ClusterScoped
        THEN OwnedRoleBindings = {}
        ELSE OwnedClusterRoleBindings = {}

(***************************************************************************)
(* Properties of the objects of other owners                               *)
(***************************************************************************)
\* C35 (as claimed): a DynamicClusterRole reconcile never overwrites a
\* cluster role whose annotations lack that source's ownership annotations:
\* a cluster role named target.name, <name>-cluster or <name>-namespace that
\* is foreign or owned by another source keeps its rules and annotations.
C35_ForeignClusterRoleKept ==
    [][\A name \in DOMAIN clusterRoles :
          ~OwnedBy("DynamicClusterRole", clusterRoles[name].Annotations) =>
              /\ name \in DOMAIN clusterRoles'
              /\ clusterRoles'[name] = clusterRoles[name]]_vars

(***************************************************************************)
(* The cluster-scoped branch of the binding SyncTarget, call by call       *)
(* (SpecRace): the Get, the review and the Update are separate steps, and  *)
(* other actors write the cluster role binding in between                  *)
(***************************************************************************)
\* the specs of the model, asked to bind cluster-wide, whose synthesis gets
\* to the cluster-scoped branch
RaceSpecs ==
    {spec \in {[b EXCEPT !.Targets.ClusterScoped = TRUE] : b \in BindingSpecs} :
        /\ ParseDuration(spec.Synchronization.Time)
        /\ LET Reaches(sync) == ~sync.err /\ ~sync.panic
           IN Reaches(SyncTargetBinding(Resource("DynamicRoleBinding", spec),
                                        <<>>, <<>>, {}))}

\* what SyncTarget returned; the Reconcile around it is not followed here
SyncTargetReturned(err, faults) ==
    [NoReturn EXCEPT !.reconciler = "DynamicRoleBinding", !.path = "sync",
                     !.syncErr = err, !.faults = faults]

\* what another actor may store under the target name: an object of an
\* unrelated owner, one of another source, one without annotations
OtherClusterRoleBindings(resource) ==
    { Foreign("", resource.Spec.Targets.Name),
      [Foreign("", resource.Spec.Targets.Name) EXCEPT
          !.Annotations = [ReferenceAnnotations(resource) EXCEPT
                              !["kuberbac.prosimcorp.com/owner-name"] = "another"]],
      [Foreign("", resource.Spec.Targets.Name) EXCEPT !.Annotations = <<>>] }

InitRace ==
    /\ stage = "get"
    /\ allow = <<>>
    /\ deny = <<>>
    /\ lister = [err |-> FALSE, items |-> Items(InstanceNames)]
    /\ allowMap = <<>>
    /\ denyMap = <<>>
    /\ result = [err |-> FALSE, rules |-> <<>>]
    /\ rangeStart = 0
    /\ discovery = ClusterDiscovery
    /\ inventory = ClusterInventory
    /\ dynamicClusterRole = Absent
    /\ dynamicRoleBinding \in
           {[Resource("DynamicRoleBinding", spec) EXCEPT !.Finalizers = {resourceFinalizer}] :
               spec \in RaceSpecs}
    /\ clusterRoles = <<>>
    /\ \/ clusterRoleBindings = <<>>
       \/ \E object \in OtherClusterRoleBindings(dynamicRoleBinding)
                         \cup {BindingResource(dynamicRoleBinding, <<>>)} :
             clusterRoleBindings = (object.Name :> object)
    /\ roleBindings = <<>>
    /\ calls = <<>>
    /\ returned = NoReturn

\* r.Get of the cluster role binding, IgnoreNotFound, and the review of the
\* reference annotations of what the Get returned
GetClusterRoleBinding ==
    /\ stage = "get"
    /\ \E failed \in BOOLEAN :
          LET name == dynamicRoleBinding.Spec.Targets.Name
          IN IF failed
             THEN /\ stage' = "returned"
                  /\ returned' = SyncTargetReturned(TRUE, {"GetClusterRoleBinding"})
             ELSE IF /\ name \in DOMAIN clusterRoleBindings
                     /\ ~IsSubset(ReferenceAnnotations(dynamicRoleBinding),
                                  clusterRoleBindings[name].Annotations)
             THEN /\ stage' = "returned"
                  /\ returned' = SyncTargetReturned(FALSE, {})
             ELSE /\ stage' = "update"
                  /\ returned' = returned
    /\ UNCHANGED <<allow, deny, lister, allowMap, denyMap, result, rangeStart, discovery,
                   inventory>>
    /\ UNCHANGED <<dynamicClusterRole, dynamicRoleBinding, clusterRoles,
                   clusterRoleBindings, roleBindings, calls>>

\* r.Client.Update of the cluster role binding SyncTarget built; the object
\* carries no resource version, so the server stores it over what is there
UpdateClusterRoleBinding ==
    /\ stage = "update"
    /\ \E failed \in BOOLEAN :
          LET Send(binding) ==
                  /\ calls' = Append(calls, Call("Update", "ClusterRoleBinding", "",
                                                 binding.Name, binding, ~failed))
                  /\ clusterRoleBindings' =
                         IF failed THEN clusterRoleBindings
                         ELSE Updated(clusterRoleBindings, binding.Name, binding)
                  /\ returned' = SyncTargetReturned(failed,
                                     IF failed THEN {"UpdateClusterRoleBinding"} ELSE {})
          IN Send(BindingResource(dynamicRoleBinding, ExpandedSubjects))
    /\ stage' = "returned"
    /\ UNCHANGED <<allow, deny, lister, allowMap, denyMap, result, rangeStart, discovery,
                   inventory>>
    /\ UNCHANGED <<dynamicClusterRole, dynamicRoleBinding, clusterRoles, roleBindings>>

\* another source's reconcile or an external writer stores its own object
\* under the target name, or deletes what is there
WriteOtherClusterRoleBinding ==
    /\ stage \in {"get", "update"}
    /\ \/ \E object \in OtherClusterRoleBindings(dynamicRoleBinding) :
             /\ ~(object.Name \in DOMAIN clusterRoleBindings
                   /\ clusterRoleBindings[object.Name] = object)
             /\ clusterRoleBindings' = Updated(clusterRoleBindings, object.Name, object)
       \/ /\ clusterRoleBindings # <<>>
          /\ clusterRoleBindings' = <<>>
    /\ UNCHANGED compileVars
    /\ UNCHANGED <<dynamicClusterRole, dynamicRoleBinding, clusterRoles, roleBindings,
                   calls, returned>>

NextRace ==
    \/ GetClusterRoleBinding
    \/ UpdateClusterRoleBinding
    \/ WriteOtherClusterRoleBinding

SpecRace == InitRace /\ [][NextRace]_vars

\* C36 (as claimed): across every interleaving of a binding reconcile's get
\* and update of the cluster role binding with writes by other actors, the
\* update never replaces an object whose annotations at the moment of the
\* write lack the source's ownership annotations.
C36_UpdateNeverReplacesForeign ==
    [][(stage = "update" /\ clusterRoleBindings' # clusterRoleBindings
        /\ Len(calls') > Len(calls))
          => \A name \in DOMAIN clusterRoleBindings :
                 name = dynamicRoleBinding.Spec.Targets.Name =>
                     OwnedBy("DynamicRoleBinding", clusterRoleBindings[name].Annotations)]_vars

(***************************************************************************)
(* Properties of the name expansion and of the subtraction                 *)
(***************************************************************************)
\* C37 (as claimed): name expansion of a broad allow never removes verbs
\* granted by an allow that was already scoped to a resource name: with a
\* broad allow and an allow naming the live instance x of the same group and
\* resource, and a deny that names a different instance, the output rule of
\* x carries the union of the broad rule's verbs and the named rule's verbs.
C37_NameExpansionKeepsNamedAllow ==
    Compiled =>
        \A t \in ResourceTuples(allowMap) :
            LET broadKey == ResourceKey(t.group, t.resource, "")
                key      == ResourceKey(t.group, t.resource, t.name)
            IN (/\ t.name # ""
                /\ t.name \in Live(t.group, t.resource)
                /\ broadKey \in DOMAIN allowMap
                /\ NameExpanded(t.group, t.resource)
                /\ DeniedVerbs(t.group, t.resource, t.name) = {}) =>
                   /\ key \in DOMAIN result.rules
                   /\ Range(result.rules[key].Verbs)
                          = Range(allowMap[broadKey].Verbs) \cup Range(allowMap[key].Verbs)

\* the keys of the atomic rules of spec.deny whose rule lists the verb '*'
StarDenyKeys ==
    LET stretched == StretchPolicyRules(ExpandPolicyRules(deny))
    IN {MapKey(stretched[i]) :
           i \in {x \in DOMAIN stretched :
                     Contains(deny[stretched[x].Verbs.arr].Verbs, "*")}}

\* C38 (as claimed): if a deny rule with verbs ['*'] matches an allow key
\* (same group, resource and name, or same URL), the compiled output grants
\* no verb at all on that key, whatever verbs the allow rule lists for it.
C38_StarDenyRemovesKey ==
    Compiled =>
        \A key \in StarDenyKeys :
            key \in DOMAIN result.rules => result.rules[key].Verbs = <<>>

\* under a key that one atomic rule alone produced, the map holds the verb
\* list of that rule
LoneKeysKept(map, policyRules) ==
    LET atomic == AtomicRules(policyRules)
    IN \A i \in DOMAIN atomic :
           (\A j \in DOMAIN atomic : MapKey(atomic[j]) = MapKey(atomic[i]) => j = i) =>
               /\ MapKey(atomic[i]) \in DOMAIN map
               /\ map[MapKey(atomic[i])].Verbs = atomic[i].Verbs

\* C39 (as claimed): merging the verbs of atomic rules that share a key
\* leaves the verbs of the rules stored under every other key unchanged,
\* also when those rules were stretched from the same compound rule and
\* share its verb list.
C39_MergeLeavesOtherKeys ==
    stage = "done" => LoneKeysKept(allowMap, allow) /\ LoneKeysKept(denyMap, deny)

====
